---- MODULE Spec2Model ----
(***************************************************************************)
(* Mars Colony: the hourly simulation engine of src/mars_colony.cpp        *)
(* (class Game): command queue, events, power dispatch with the battery    *)
(* model, the 0/1 knapsack load selection, effects, forecast, invariants.  *)
(*                                                                         *)
(* Numbers.  The program computes in double; the model computes in fixed   *)
(* point, every product and quotient rounded down:                         *)
(*   energy and power     micro-kWh   (1 kWh = KWH = 10^6)                 *)
(*   water, oxygen, food  milli-units (1 unit = UNIT = 10^3)               *)
(*   morale, daylight, storm multiplier, nonCriticalEff   per mille        *)
(*   cRate, etaIn, etaOut per cent                                         *)
(* The tolerance 1e-6 of the program is one micro-kWh; its tolerances      *)
(* 1e-9 and 1e-12 are below the grid and are 0 here.                       *)
(* std::mt19937 is modelled by a 16-bit linear congruential generator: a   *)
(* state, one step per draw of a distribution.                             *)
(***************************************************************************)
EXTENDS Integers, Sequences, FiniteSets, TLC

\* ----------------------------------------------------------------- bounds
MaxHour == 3
MaxCmds == 2
MaxForecast == 1
MaxAdvance == 1
MaxReplay == 1
MaxExtra == 2

\* ------------------------------------------------------------------ units
KWH == 1000 * 1000
UNIT == 10 * 100
PERMILLE == 10 * 100
PERCENT == 10 * 10

Min(a, b) == IF a <= b THEN a ELSE b
Max(a, b) == IF a >= b THEN a ELSE b

\* floor(x * num / den), without leaving 32 bits
MulDiv(x, num, den) == (x \div den) * num + ((x % den) * num) \div den

\* template clampv: std::min(hi, std::max(lo, v))
clampv(v, lo, hi) == Min(hi, Max(lo, v))

\* ---------------------------------------------------------- BuildingType
SolarArray == 0
BatteryBank == 1
Habitat == 2
Greenhouse == 3
WaterExtractor == 4
Electrolyzer == 5
RTG == 6
BuildingTypes == SolarArray .. RTG

\* static const std::map DB of getSpec: power in micro-kWh, flows in milli-units
SpecDB ==
  [t \in BuildingTypes |->
    CASE t = SolarArray ->
           [powerProdDay |-> 25 * KWH, powerProdConst |-> 0, powerCons |-> 0,
            waterFlow |-> 0, oxygenFlow |-> 0, foodFlow |-> 0, housing |-> 0,
            batteryCapacityDelta |-> 0, metalsCost |-> 50, creditsCost |-> 100,
            needsPower |-> FALSE, isCriticalLoad |-> FALSE]
      [] t = BatteryBank ->
           [powerProdDay |-> 0, powerProdConst |-> 0, powerCons |-> 0,
            waterFlow |-> 0, oxygenFlow |-> 0, foodFlow |-> 0, housing |-> 0,
            batteryCapacityDelta |-> 200 * KWH, metalsCost |-> 40, creditsCost |-> 50,
            needsPower |-> FALSE, isCriticalLoad |-> FALSE]
      [] t = Habitat ->
           [powerProdDay |-> 0, powerProdConst |-> 0, powerCons |-> 2 * KWH,
            waterFlow |-> 0, oxygenFlow |-> 0, foodFlow |-> 0, housing |-> 5,
            batteryCapacityDelta |-> 0, metalsCost |-> 100, creditsCost |-> 500,
            needsPower |-> TRUE, isCriticalLoad |-> TRUE]
      [] t = Greenhouse ->
           [powerProdDay |-> 0, powerProdConst |-> 0, powerCons |-> 12 * KWH,
            waterFlow |-> -2 * UNIT, oxygenFlow |-> 1 * UNIT, foodFlow |-> 2 * UNIT,
            housing |-> 0, batteryCapacityDelta |-> 0, metalsCost |-> 80,
            creditsCost |-> 400, needsPower |-> TRUE, isCriticalLoad |-> FALSE]
      [] t = WaterExtractor ->
           [powerProdDay |-> 0, powerProdConst |-> 0, powerCons |-> 8 * KWH,
            waterFlow |-> 3 * UNIT, oxygenFlow |-> 0, foodFlow |-> 0, housing |-> 0,
            batteryCapacityDelta |-> 0, metalsCost |-> 60, creditsCost |-> 300,
            needsPower |-> TRUE, isCriticalLoad |-> FALSE]
      [] t = Electrolyzer ->
           [powerProdDay |-> 0, powerProdConst |-> 0, powerCons |-> 10 * KWH,
            waterFlow |-> -1 * UNIT, oxygenFlow |-> (3 * UNIT) \div 2, foodFlow |-> 0,
            housing |-> 0, batteryCapacityDelta |-> 0, metalsCost |-> 50,
            creditsCost |-> 350, needsPower |-> TRUE, isCriticalLoad |-> FALSE]
      [] OTHER ->
           [powerProdDay |-> 0, powerProdConst |-> 30 * KWH, powerCons |-> 0,
            waterFlow |-> 0, oxygenFlow |-> 0, foodFlow |-> 0, housing |-> 0,
            batteryCapacityDelta |-> 0, metalsCost |-> 200, creditsCost |-> 2000,
            needsPower |-> FALSE, isCriticalLoad |-> FALSE]]

\* DB.at(t) throws std::out_of_range for a key that is not in the map
getSpecThrows(t) == t \notin BuildingTypes
getSpec(t) == SpecDB[t]

\* ------------------------------------------------------------------- RNG
\* One step of the generator: the state after a draw, which is also the value drawn.
RngModulus == 65536
RngNext(st) == (st * 25173 + 13849) % RngModulus
\* rng.seed(seed)
RngSeeded(seed) == seed % RngModulus
\* uniform_real_distribution<double>(0,1) value v out of RngModulus: v/RngModulus < pct/100
RollBelow(v, pct) == v * 100 < pct * RngModulus
\* uniform_int_distribution<int>(lo, hi)
UniformInt(v, lo, hi) == lo + (v * (hi - lo + 1)) \div RngModulus
\* uniform_real_distribution<double>(lo, hi), per mille
UniformPermille(v, lo, hi) == lo + (v * (hi - lo)) \div RngModulus

\* -------------------------------------------------------------- GameState
EmptyPowerReport ==
  [producers |-> 0, criticalDemand |-> 0, nonCriticalDemand |-> 0, nonCriticalEff |-> 0,
   blackout |-> FALSE, battIn |-> 0, battOut |-> 0,
   chargeCRateLimited |-> FALSE, dischargeCRateLimited |-> FALSE]

\* struct ColonyResources defaults
DefaultResources ==
  [powerStored |-> 300 * KWH, batteryCapacity |-> 600 * KWH, water |-> 100 * UNIT,
   oxygen |-> 200 * UNIT, food |-> 100 * UNIT, metals |-> 200, credits |-> 1000]

\* GameState(): member defaults; the generator is seeded from std::random_device
GameState(seed) ==
  [hour |-> 0, population |-> 5, housingCapacity |-> 5, morale |-> 750,
   res |-> DefaultResources, buildings |-> <<>>, effects |-> <<>>,
   lastPower |-> EmptyPowerReport,
   batteryCRate |-> 50, batteryEtaIn |-> 92, batteryEtaOut |-> 95,
   rng |-> RngSeeded(seed), rngSeed |-> seed]

\* ------------------------------------------------------------ build
addBuilding(s, t) ==
  LET sp == getSpec(t)
      cap == s.res.batteryCapacity + sp.batteryCapacityDelta
  IN [s EXCEPT !.buildings = Append(@, [type |-> t, active |-> TRUE]),
               !.housingCapacity = @ + sp.housing,
               !.res.batteryCapacity = cap,
               !.res.powerStored = clampv(@, 0, cap)]

\* tryBuild paying the metals before the credits are checked
tryBuild_metalsFirst(s, t) ==
  IF getSpecThrows(t) THEN [s |-> s, ok |-> FALSE, raised |-> TRUE]
  ELSE LET sp == getSpec(t) IN
       IF s.res.metals < sp.metalsCost THEN [s |-> s, ok |-> FALSE, raised |-> FALSE]
       ELSE IF s.res.credits < sp.creditsCost
            THEN [s |-> [s EXCEPT !.res.metals = @ - sp.metalsCost],
                  ok |-> FALSE, raised |-> FALSE]
       ELSE [s |-> addBuilding([s EXCEPT !.res.metals = @ - sp.metalsCost,
                                         !.res.credits = @ - sp.creditsCost], t),
             ok |-> TRUE, raised |-> FALSE]

\* tryBuild that checks the metals only
tryBuild_onCredit(s, t) ==
  IF getSpecThrows(t) THEN [s |-> s, ok |-> FALSE, raised |-> TRUE]
  ELSE LET sp == getSpec(t) IN
       IF s.res.metals < sp.metalsCost THEN [s |-> s, ok |-> FALSE, raised |-> FALSE]
       ELSE [s |-> addBuilding([s EXCEPT !.res.metals = @ - sp.metalsCost,
                                         !.res.credits = @ - sp.creditsCost], t),
             ok |-> TRUE, raised |-> FALSE]

\* [s, ok, raised]: raised when getSpec throws, before anything is changed
tryBuild(s, t) ==
  IF getSpecThrows(t) THEN [s |-> s, ok |-> FALSE, raised |-> TRUE]
  ELSE LET sp == getSpec(t) IN
       IF s.res.metals < sp.metalsCost THEN [s |-> s, ok |-> FALSE, raised |-> FALSE]
       ELSE IF s.res.credits < sp.creditsCost THEN [s |-> s, ok |-> FALSE, raised |-> FALSE]
       ELSE [s |-> addBuilding([s EXCEPT !.res.metals = @ - sp.metalsCost,
                                         !.res.credits = @ - sp.creditsCost], t),
             ok |-> TRUE, raised |-> FALSE]

initStarter(s) ==
  addBuilding(addBuilding(addBuilding(addBuilding(addBuilding(addBuilding(addBuilding(
    addBuilding(s, Habitat), SolarArray), SolarArray), SolarArray), BatteryBank),
    WaterExtractor), Greenhouse), Electrolyzer)

\* Game(): the members of class Game.  submitted is history: the number of
\* commands ever put in pendingCommands, which numbers each command on entry.
\* recordFile is the file at recordPath: its header and its command lines
NoRecord == [hasSeed |-> FALSE, seed |-> 0, startHour |-> 0, cmds |-> <<>>]

NewGame(seed) ==
  [s |-> initStarter(GameState(seed)), forecastMode |-> FALSE,
   hardFailOnInvariant |-> FALSE, pendingCommands |-> <<>>, submitted |-> 0,
   recording |-> FALSE, recordFile |-> NoRecord]

\* setSeed with the generator left as the constructor seeded it
setSeed_seedOnly(g, seed) == [g EXCEPT !.s.rngSeed = seed]

setSeed(g, seed) == [g EXCEPT !.s.rngSeed = seed, !.s.rng = RngSeeded(seed)]

enableHardInvariants(g, on) == [g EXCEPT !.hardFailOnInvariant = on]

\* ------------------------------------------------------------ commands
\* std::multimap<long long, Command>: a sequence ordered by hour, equal hours in
\* insertion order (emplace inserts at the upper bound of the key)
RECURSIVE emplace(_, _)
emplace(q, c) ==
  IF q = <<>> THEN <<c>>
  ELSE IF Head(q).hour <= c.hour THEN <<Head(q)>> \o emplace(Tail(q), c)
  ELSE <<c>> \o q

\* pendingCommands.emplace(c.hour, c); c.n is the command's number of entry
enqueue(g, c) ==
  [g EXCEPT !.pendingCommands = emplace(@, c @@ [n |-> g.submitted + 1]),
            !.submitted = @ + 1]

\* the header "seed", "start_hour", "endheader" of a new, empty record file
startRecordingTo(g) ==
  [g EXCEPT !.recording = TRUE,
            !.recordFile = [hasSeed |-> TRUE, seed |-> g.s.rngSeed,
                            startHour |-> g.s.hour, cmds |-> <<>>]]

\* recordCommand writing the hour after the command's
recordCommand_nextHour(g, c) ==
  [g EXCEPT !.recordFile.cmds = Append(@, [hour |-> c.hour + 1, a |-> c.a])]

\* the line "h <hour> build <a>" appended to the record file
recordCommand(g, c) ==
  [g EXCEPT !.recordFile.cmds = Append(@, [hour |-> c.hour, a |-> c.a])]

submit(g, c) ==
  IF g.recording THEN recordCommand(enqueue(g, c), c) ELSE enqueue(g, c)

equal_range(q, h) == SelectSeq(q, LAMBDA c : c.hour = h)
erase_range(q, h) == SelectSeq(q, LAMBDA c : c.hour # h)

\* the loop of applyCommandsForHour over the range; r = [g, raised, orders,
\* applied], orders the "[Order] Build ..." lines printed (none in forecast
\* mode) with the colony before and after the tryBuild each reports, applied
\* the numbers of entry of the commands tryBuild was called for
RECURSIVE applyRange(_, _, _)
applyRange(r, cmds, hourNow) ==
  IF cmds = <<>> \/ r.raised THEN r
  ELSE LET c == Head(cmds)
           b == tryBuild(r.g.s, c.a)
       IN applyRange(
            [g |-> [r.g EXCEPT !.s = b.s],
             raised |-> b.raised,
             applied |-> IF b.raised THEN r.applied ELSE Append(r.applied, c.n),
             orders |-> IF b.raised \/ r.g.forecastMode THEN r.orders
                        ELSE Append(r.orders,
                                    [a |-> c.a, ok |-> b.ok, hour |-> hourNow, n |-> c.n,
                                     before |-> r.g.s, after |-> b.s])],
            Tail(cmds), hourNow)

\* [g, raised, orders, applied]; a throw leaves the queue as it was
applyCommandsForHour(g, hourNow) ==
  LET r == applyRange([g |-> g, raised |-> FALSE, orders |-> <<>>, applied |-> <<>>],
                      equal_range(g.pendingCommands, hourNow), hourNow)
  IN IF r.raised THEN r
     ELSE [r EXCEPT !.g.pendingCommands = erase_range(@, hourNow)]

\* [g, raised, orders]
queueBuildNow(g, t) ==
  applyCommandsForHour(submit(g, [hour |-> g.s.hour, a |-> t]), g.s.hour)

\* ------------------------------------------------------- time, daylight
SOL_HOURS == 24
hourOfSol(s) == s.hour % SOL_HOURS

\* daylightFactor at the integer hours it is called with, per mille:
\* a = 4.5, b = 7.5, c = 16.5, d = 19.5; ease(t) = 0.5 - 0.5 cos(pi t)
daylightFactor(s) ==
  LET h == hourOfSol(s) IN
  CASE h <= 4 \/ h >= 20 -> 0
    [] h >= 8 /\ h <= 16 -> 1000
    [] h = 5 \/ h = 19 -> 66
    [] h = 6 \/ h = 18 -> 500
    [] OTHER -> 933

RECURSIVE stormProduct(_)
stormProduct(effects) ==
  IF effects = <<>> THEN PERMILLE
  ELSE MulDiv(stormProduct(Tail(effects)), Head(effects).solarMultiplier, PERMILLE)
stormSolarMultiplier(s) == stormProduct(s.effects)

\* ---------------------------------------------------------------- events
RemoveAt(seq, i) == SubSeq(seq, 1, i - 1) \o SubSeq(seq, i + 1, Len(seq))

\* indices (1-based) of the buildings that are not Battery Banks, ascending
RECURSIVE candidatesFrom(_, _)
candidatesFrom(buildings, i) ==
  IF i > Len(buildings) THEN <<>>
  ELSE (IF buildings[i].type # BatteryBank THEN <<i>> ELSE <<>>)
       \o candidatesFrom(buildings, i + 1)

spawnStorm(s) ==
  LET v0 == RngNext(s.rng) IN
  IF RollBelow(v0, 18)
  THEN LET v1 == RngNext(v0)
           v2 == RngNext(v1)
       IN [s EXCEPT !.rng = v2,
                    !.effects = Append(@, [hoursRemaining |-> UniformInt(v1, 36, 96),
                                           solarMultiplier |-> UniformPermille(v2, 200, 600)])]
  ELSE [s EXCEPT !.rng = v0]

\* the meteoroid picking among all the facilities, Battery Banks included
spawnMeteoroid_anyFacility(s) ==
  LET v0 == RngNext(s.rng) IN
  IF RollBelow(v0, 6) /\ s.buildings # <<>>
  THEN LET v1 == RngNext(v0)
           idx == 1 + UniformInt(v1, 0, Len(s.buildings) - 1)
           sp == getSpec(s.buildings[idx].type)
       IN [s EXCEPT !.rng = v1,
                    !.housingCapacity = Max(@ - sp.housing, 0),
                    !.buildings = RemoveAt(@, idx),
                    !.morale = clampv(@ - 80, 0, 1000)]
  ELSE [s EXCEPT !.rng = v0]

spawnMeteoroid(s) ==
  LET v0 == RngNext(s.rng) IN
  IF RollBelow(v0, 6) /\ s.buildings # <<>>
  THEN LET candidates == candidatesFrom(s.buildings, 1) IN
       IF candidates # <<>>
       THEN LET v1 == RngNext(v0)
                idx == candidates[1 + UniformInt(v1, 0, Len(candidates) - 1)]
                sp == getSpec(s.buildings[idx].type)
            IN [s EXCEPT !.rng = v1,
                         !.housingCapacity = Max(@ - sp.housing, 0),
                         !.buildings = RemoveAt(@, idx),
                         !.morale = clampv(@ - 80, 0, 1000)]
       ELSE [s EXCEPT !.rng = v0]
  ELSE [s EXCEPT !.rng = v0]

spawnSupplyDrop(s) ==
  LET v0 == RngNext(s.rng) IN
  IF RollBelow(v0, 12)
  THEN [s EXCEPT !.rng = v0,
                 !.res.water = @ + 60 * UNIT, !.res.oxygen = @ + 120 * UNIT,
                 !.res.food = @ + 80 * UNIT, !.res.metals = @ + 60,
                 !.res.credits = @ + 400]
  ELSE [s EXCEPT !.rng = v0]

\* maybeSpawnEvents with the supply-drop roll drawn before the meteoroid roll
maybeSpawnEvents_dropFirst(s) ==
  IF hourOfSol(s) # 0 THEN s
  ELSE spawnMeteoroid(spawnSupplyDrop(spawnStorm(s)))

maybeSpawnEvents(s) ==
  IF hourOfSol(s) # 0 THEN s
  ELSE spawnSupplyDrop(spawnMeteoroid(spawnStorm(s)))

\* tickEffects keeping an effect through the tick its duration reaches 0
tickEffects_keepsZero(s) ==
  LET dec == [i \in 1 .. Len(s.effects) |->
                IF s.effects[i].hoursRemaining > 0
                THEN [s.effects[i] EXCEPT !.hoursRemaining = @ - 1]
                ELSE s.effects[i]]
  IN [s EXCEPT !.effects = SelectSeq(dec, LAMBDA e : ~(e.hoursRemaining < 0))]

tickEffects(s) ==
  LET dec == [i \in 1 .. Len(s.effects) |->
                IF s.effects[i].hoursRemaining > 0
                THEN [s.effects[i] EXCEPT !.hoursRemaining = @ - 1]
                ELSE s.effects[i]]
  IN [s EXCEPT !.effects = SelectSeq(dec, LAMBDA e : ~(e.hoursRemaining <= 0))]

\* ------------------------------------------------ non-critical dispatch
\* int(x * scale + 0.5), scale = 10: tenths of a kWh, rounded to nearest
Discretize(x) == (x + KWH \div 20) \div (KWH \div 10)

\* utility of one facility, in 1e-4 units; weights per mille, flows in milli-units
Utility(sp, wFood, wO2, wWater) ==
  LET raw == (IF sp.foodFlow > 0 THEN (wFood * sp.foodFlow) \div 100 ELSE 0)
           + (IF sp.oxygenFlow > 0 THEN (wO2 * sp.oxygenFlow) \div 100 ELSE 0)
           + (IF sp.waterFlow > 0 THEN (wWater * sp.waterFlow) \div 100 ELSE 0)
  IN \* util /= (1.0 + 0.05 * powerCons)
     (raw * 20) \div (20 + sp.powerCons \div KWH)

\* double arithmetic: a utility and every sum of utilities is rounded to the
\* nearest value of MantissaBits significant bits, ties to even (a double keeps
\* 53; the width is scaled down with the scale of the utilities)
MantissaBits == 20
RECURSIVE Ulp(_)
Ulp(x) == IF x < 2 ^ MantissaBits THEN 1 ELSE 2 * Ulp(x \div 2)
fl(x) ==
  LET u == Ulp(x)
      q == x \div u
      r == x % u
  IN IF 2 * r < u THEN q * u
     ELSE IF 2 * r > u THEN (q + 1) * u
     ELSE (IF q % 2 = 0 THEN q ELSE q + 1) * u

\* the item of facility i, if it is a candidate: [idx, w, v]
\* an item for every facility that needs power and draws some, switched on or not
ItemOf_inactiveToo(b, sp, i, wFood, wO2, wWater) ==
  IF ~sp.needsPower \/ sp.isCriticalLoad \/ sp.powerCons <= 0 THEN <<>>
  ELSE IF Discretize(sp.powerCons) <= 0 THEN <<>>
  ELSE IF Utility(sp, wFood, wO2, wWater) > 0
       THEN <<[idx |-> i, w |-> Discretize(sp.powerCons),
               v |-> fl(Utility(sp, wFood, wO2, wWater))]>>
       ELSE <<>>

ItemOf(b, sp, i, wFood, wO2, wWater) ==
  IF ~b.active THEN <<>>
  ELSE IF ~sp.needsPower \/ sp.isCriticalLoad \/ sp.powerCons <= 0 THEN <<>>
  ELSE IF Discretize(sp.powerCons) <= 0 THEN <<>>
  ELSE IF Utility(sp, wFood, wO2, wWater) > 0
       THEN <<[idx |-> i, w |-> Discretize(sp.powerCons),
               v |-> fl(Utility(sp, wFood, wO2, wWater))]>>
       ELSE <<>>

\* the items of the knapsack, in facility order
RECURSIVE knapsackItems(_, _, _, _, _)
knapsackItems(buildings, i, wFood, wO2, wWater) ==
  IF i > Len(buildings) THEN <<>>
  ELSE ItemOf(buildings[i], getSpec(buildings[i].type), i, wFood, wO2, wWater)
       \o knapsackItems(buildings, i + 1, wFood, wO2, wWater)

\* dp[i][c] of the table
RECURSIVE dp(_, _, _)
dp(items, i, c) ==
  IF i = 0 THEN 0
  ELSE LET skip == dp(items, i - 1, c) IN
       IF items[i].w <= c
       THEN LET cand == fl(dp(items, i - 1, c - items[i].w) + items[i].v)
            IN IF cand > skip THEN cand ELSE skip
       ELSE skip

\* an item taken whenever it fits
take_whenFits(items, i, c) == items[i].w <= c

\* take[i][c] of the table
take(items, i, c) ==
  /\ items[i].w <= c
  /\ fl(dp(items, i - 1, c - items[i].w) + items[i].v) > dp(items, i - 1, c)

\* the back-tracking loop: the chosen facility indices, last item first
RECURSIVE reconstruct(_, _, _)
reconstruct(items, i, c) ==
  IF i < 1 THEN <<>>
  ELSE IF take(items, i, c)
       THEN <<items[i].idx>> \o reconstruct(items, i - 1, c - items[i].w)
       ELSE reconstruct(items, i - 1, c)

chooseNonCriticalLoads(s, powerBudget, wFood, wO2, wWater) ==
  LET capacity == Discretize(Max(0, powerBudget))
      items == knapsackItems(s.buildings, 1, wFood, wO2, wWater)
  IN IF capacity <= 0 \/ items = <<>> THEN <<>>
     ELSE reconstruct(items, Len(items), capacity)

\* ----------------------------------------------------------- simulateHour
PWR_PER_COLONIST == 300000
WAT_PER_COLONIST == 100
O2_PER_COLONIST == 500
FOOD_PER_COLONIST == 50

RECURSIVE SumSeq(_)
SumSeq(seq) == IF seq = <<>> THEN 0 ELSE Head(seq) + SumSeq(Tail(seq))
\* the sum of F over the facilities, in list order
SumOver(seq, F(_)) == SumSeq([i \in 1 .. Len(seq) |-> F(seq[i])])

\* 1) power production
Producers(s) ==
  LET daylight == daylightFactor(s)
      stormMult == stormSolarMultiplier(s)
      one(b) == IF ~b.active THEN 0
                ELSE LET sp == getSpec(b.type) IN
                     (IF sp.powerProdConst > 0 THEN sp.powerProdConst ELSE 0)
                     + (IF sp.powerProdDay > 0
                        THEN MulDiv(MulDiv(sp.powerProdDay, daylight, PERMILLE),
                                    stormMult, PERMILLE)
                        ELSE 0)
  IN SumOver(s.buildings, one)

\* 2) critical demand and non-critical potential demand
CriticalDemand(s) ==
  LET one(b) == IF ~b.active THEN 0
                ELSE LET sp == getSpec(b.type) IN
                     IF sp.powerCons <= 0 \/ ~sp.needsPower THEN 0
                     ELSE IF sp.isCriticalLoad THEN sp.powerCons ELSE 0
  IN s.population * PWR_PER_COLONIST + SumOver(s.buildings, one)

NonCritPotential(s) ==
  LET one(b) == IF ~b.active THEN 0
                ELSE LET sp == getSpec(b.type) IN
                     IF sp.powerCons <= 0 \/ ~sp.needsPower THEN 0
                     ELSE IF sp.isCriticalLoad THEN 0 ELSE sp.powerCons
  IN SumOver(s.buildings, one)

\* 3) hours of supply, in milli-hours; weight 1 + 72/(h+1), per mille
hoursOf(store, ratePerHour) ==
  IF ratePerHour <= 0 THEN 9999 * 1000 ELSE MulDiv(store, 1000, ratePerHour)
weightFromHours(h) == 1000 + (72 * 1000 * 1000) \div (h + 1000)

\* 4) budget for the non-critical loads
\* [deliverableMax, reservedForCritical, nonCritBudget]
BatteryBudget(s, producers, critical) ==
  LET cap == s.res.batteryCapacity
      soc0 == s.res.powerStored
      deliverByCRate == MulDiv(cap, s.batteryCRate, PERCENT)
      deliverBySoC == MulDiv(soc0, s.batteryEtaOut, PERCENT)
      deliverableMax == Max(0, Min(deliverByCRate, deliverBySoC))
      surplusAfterCritical == Max(0, producers - critical)
      deficitAfterCritical == Max(0, critical - producers)
      reservedForCritical == Min(deficitAfterCritical, deliverableMax)
      remainingDeliverable == Max(0, deliverableMax - reservedForCritical)
  IN [deliverableMax |-> deliverableMax,
      reservedForCritical |-> reservedForCritical,
      nonCritBudget |-> surplusAfterCritical + remainingDeliverable]

\* the quotient taken as a product: x * eta
DivEta_times(x, eta) == MulDiv(x, eta, PERCENT)

\* x / std::max(1e-12, eta): floor(x * 100 / eta); with eta = 0 the quotient of
\* a positive x is beyond every other quantity
DivEta(x, eta) ==
  IF eta > 0 THEN MulDiv(x, PERCENT, eta)
  ELSE IF x > 0 THEN 2000 * KWH ELSE IF x < 0 THEN -2000 * KWH ELSE 0

\* the dispatch with the discharge limited by the state of charge only
BatteryDispatch_bySoCOnly(s, netAfterLoads) ==
  LET cap == s.res.batteryCapacity
      soc0 == s.res.powerStored
      etaIn == s.batteryEtaIn
      etaOut == s.batteryEtaOut
      chargePowerLimit == MulDiv(cap, s.batteryCRate, PERCENT)
  IN IF netAfterLoads > 0
     THEN LET byCRate == chargePowerLimit
              byRoom == DivEta(cap - soc0, etaIn)
              canInput == Max(0, Min(netAfterLoads, Min(byCRate, byRoom)))
          IN [soc |-> soc0 + MulDiv(canInput, etaIn, PERCENT),
              battIn |-> canInput, battOut |-> 0,
              net |-> netAfterLoads - canInput,
              chargeCRateLimited |-> canInput < netAfterLoads /\ canInput < byCRate,
              dischargeCRateLimited |-> FALSE]
     ELSE IF netAfterLoads < 0
     THEN LET deficit == -netAfterLoads
              deliverBySo == MulDiv(soc0, etaOut, PERCENT)
              delivered == Max(0, Min(deficit, deliverBySo))
          IN [soc |-> soc0 - DivEta(delivered, etaOut),
              battIn |-> 0, battOut |-> delivered,
              net |-> netAfterLoads + delivered,
              chargeCRateLimited |-> FALSE,
              dischargeCRateLimited |-> FALSE]
     ELSE [soc |-> soc0, battIn |-> 0, battOut |-> 0, net |-> netAfterLoads,
           chargeCRateLimited |-> FALSE, dischargeCRateLimited |-> FALSE]

\* the dispatch with the charge limited by the room alone, the C-rate ignored
BatteryDispatch_byRoomOnly(s, netAfterLoads) ==
  LET cap == s.res.batteryCapacity
      soc0 == s.res.powerStored
      etaIn == s.batteryEtaIn
      etaOut == s.batteryEtaOut
      dischargePowerLimit == MulDiv(cap, s.batteryCRate, PERCENT)
  IN IF netAfterLoads > 0
     THEN LET byRoom == DivEta(cap - soc0, etaIn)
              canInput == Max(0, Min(netAfterLoads, byRoom))
          IN [soc |-> soc0 + MulDiv(canInput, etaIn, PERCENT),
              battIn |-> canInput, battOut |-> 0,
              net |-> netAfterLoads - canInput,
              chargeCRateLimited |-> FALSE,
              dischargeCRateLimited |-> FALSE]
     ELSE IF netAfterLoads < 0
     THEN LET deficit == -netAfterLoads
              deliverByCR == dischargePowerLimit
              deliverBySo == MulDiv(soc0, etaOut, PERCENT)
              delivered == Max(0, Min(deficit, Min(deliverByCR, deliverBySo)))
          IN [soc |-> soc0 - DivEta(delivered, etaOut),
              battIn |-> 0, battOut |-> delivered,
              net |-> netAfterLoads + delivered,
              chargeCRateLimited |-> FALSE,
              dischargeCRateLimited |-> delivered < deficit /\ delivered < deliverByCR]
     ELSE [soc |-> soc0, battIn |-> 0, battOut |-> 0, net |-> netAfterLoads,
           chargeCRateLimited |-> FALSE, dischargeCRateLimited |-> FALSE]

\* 6) battery dispatch: [soc, battIn, battOut, net, chargeCRateLimited,
\* dischargeCRateLimited] from the net power after the selected loads
BatteryDispatch(s, netAfterLoads) ==
  LET cap == s.res.batteryCapacity
      soc0 == s.res.powerStored
      etaIn == s.batteryEtaIn
      etaOut == s.batteryEtaOut
      chargePowerLimit == MulDiv(cap, s.batteryCRate, PERCENT)
      dischargePowerLimit == MulDiv(cap, s.batteryCRate, PERCENT)
  IN IF netAfterLoads > 0
     THEN LET byCRate == chargePowerLimit
              byRoom == DivEta(cap - soc0, etaIn)
              canInput == Max(0, Min(netAfterLoads, Min(byCRate, byRoom)))
          IN [soc |-> soc0 + MulDiv(canInput, etaIn, PERCENT),
              battIn |-> canInput, battOut |-> 0,
              net |-> netAfterLoads - canInput,
              chargeCRateLimited |-> canInput < netAfterLoads /\ canInput < byCRate,
              dischargeCRateLimited |-> FALSE]
     ELSE IF netAfterLoads < 0
     THEN LET deficit == -netAfterLoads
              deliverByCR == dischargePowerLimit
              deliverBySo == MulDiv(soc0, etaOut, PERCENT)
              delivered == Max(0, Min(deficit, Min(deliverByCR, deliverBySo)))
          IN [soc |-> soc0 - DivEta(delivered, etaOut),
              battIn |-> 0, battOut |-> delivered,
              net |-> netAfterLoads + delivered,
              chargeCRateLimited |-> FALSE,
              dischargeCRateLimited |-> delivered < deficit /\ delivered < deliverByCR]
     ELSE [soc |-> soc0, battIn |-> 0, battOut |-> 0, net |-> netAfterLoads,
           chargeCRateLimited |-> FALSE, dischargeCRateLimited |-> FALSE]

SeqToSet(seq) == {seq[i] : i \in 1 .. Len(seq)}

\* every powered facility flowing whenever there is no blackout
FlowEff_blackoutOnly(s, i, runFlags, blackout) ==
  IF getSpec(s.buildings[i].type).needsPower
  THEN (IF blackout THEN 0 ELSE 1)
  ELSE 1

\* 7) flow factor of facility i: discrete ON/OFF and blackout gating
FlowEff(s, i, runFlags, blackout) ==
  IF getSpec(s.buildings[i].type).needsPower
  THEN IF getSpec(s.buildings[i].type).isCriticalLoad THEN (IF blackout THEN 0 ELSE 1)
       ELSE (IF ~blackout /\ i \in runFlags THEN 1 ELSE 0)
  ELSE 1

\* the facilities whose flows are summed: active, with some non-zero flow
HasFlows(sp, b) ==
  /\ b.active
  /\ ~(sp.waterFlow = 0 /\ sp.oxygenFlow = 0 /\ sp.foodFlow = 0)

\* the sum over the facilities of one flow ("waterFlow", "oxygenFlow", "foodFlow")
FlowSum(s, flow, runFlags, blackout) ==
  SumSeq([i \in 1 .. Len(s.buildings) |->
            IF HasFlows(getSpec(s.buildings[i].type), s.buildings[i])
            THEN getSpec(s.buildings[i].type)[flow] * FlowEff(s, i, runFlags, blackout)
            ELSE 0])

\* 10) the change of morale, per mille, from the stocks after the hour
MoraleOf(blackout, hFood, hWater, hO2, charged, crowded) ==
  (IF blackout THEN -40 ELSE 0)
  + (IF hFood < 24 * 1000 THEN -20 ELSE 0)
  + (IF hWater < 24 * 1000 THEN -20 ELSE 0)
  + (IF hO2 < 24 * 1000 THEN -30 ELSE 0)
  + (IF ~blackout /\ hFood > 72 * 1000 /\ hWater > 72 * 1000 /\ hO2 > 72 * 1000 /\ charged
     THEN 10 ELSE 0)
  + (IF crowded THEN -20 ELSE 0)

MoraleDelta(s, c) ==
  MoraleOf(c.blackout,
           hoursOf(c.food, s.population * FOOD_PER_COLONIST),
           hoursOf(c.water, s.population * WAT_PER_COLONIST),
           hoursOf(c.oxygen, s.population * O2_PER_COLONIST),
           c.powerStored > s.res.batteryCapacity - c.powerStored,
           s.population > s.housingCapacity)

\* simulateHour, statement by statement.  Each stage takes the state s the call
\* began with and the local variables c computed so far, and adds its own.
\* 1), 2)
SimDemand(s) ==
  [producers |-> Producers(s), critical |-> CriticalDemand(s),
   noncritPotential |-> NonCritPotential(s),
   stormMult |-> stormSolarMultiplier(s), buildings |-> s.buildings,
   soc0 |-> s.res.powerStored, cap |-> s.res.batteryCapacity]
\* 3)
SimWeights(s, c) ==
  c @@ [wFood |-> weightFromHours(hoursOf(s.res.food, s.population * FOOD_PER_COLONIST)),
        wWater |-> weightFromHours(hoursOf(s.res.water, s.population * WAT_PER_COLONIST)),
        wO2 |-> weightFromHours(hoursOf(s.res.oxygen, s.population * O2_PER_COLONIST))]
\* 4)
SimBudget(s, c) == c @@ BatteryBudget(s, c.producers, c.critical)
\* 5)
SimChoose(s, c) ==
  c @@ [chosen |-> IF c.nonCritBudget > 0
                   THEN chooseNonCriticalLoads(s, c.nonCritBudget, c.wFood, c.wO2, c.wWater)
                   ELSE <<>>]
SimUsed(s, c) ==
  c @@ [runFlags |-> SeqToSet(c.chosen),
        noncritUsed |-> SumSeq([k \in 1 .. Len(c.chosen) |->
                                  getSpec(s.buildings[c.chosen[k]].type).powerCons])]
\* 6)
SimBattery(s, c) ==
  c @@ [batt |-> BatteryDispatch(s, c.producers - c.critical - c.noncritUsed)]
\* the level moved by the whole net power, unlimited and unclamped
SimBlackout_wholeNet(s, c) ==
  c @@ [powerStored |-> s.res.powerStored + (c.producers - c.critical - c.noncritUsed),
        blackout |-> c.batt.net < -1]

\* blackout declared only once the battery is drained
SimBlackout_whenDrained(s, c) ==
  c @@ [powerStored |-> clampv(c.batt.soc, 0, s.res.batteryCapacity),
        blackout |-> c.batt.net < -1 /\ c.batt.soc <= 0]

\* still negative after the maximal discharge: netAfterLoads < -1e-6
SimBlackout(s, c) ==
  c @@ [powerStored |-> clampv(c.batt.soc, 0, s.res.batteryCapacity),
        blackout |-> c.batt.net < -1]
\* 7), 8), 9)
SimFlows(s, c) ==
  c @@ [water |-> Max(0, s.res.water + FlowSum(s, "waterFlow", c.runFlags, c.blackout)
                          - s.population * WAT_PER_COLONIST),
        oxygen |-> Max(0, s.res.oxygen + FlowSum(s, "oxygenFlow", c.runFlags, c.blackout)
                           - s.population * O2_PER_COLONIST),
        food |-> Max(0, s.res.food + FlowSum(s, "foodFlow", c.runFlags, c.blackout)
                         - s.population * FOOD_PER_COLONIST),
        flowing |-> {i \in 1 .. Len(s.buildings) :
                       /\ HasFlows(getSpec(s.buildings[i].type), s.buildings[i])
                       /\ getSpec(s.buildings[i].type).needsPower
                       /\ FlowEff(s, i, c.runFlags, c.blackout) = 1}]
\* 11)
\* the report with the discharge as a signed flow out of the colony
PowerReport_signedOut(c) ==
  [producers |-> c.producers,
   criticalDemand |-> c.critical,
   nonCriticalDemand |-> c.noncritPotential,
   nonCriticalEff |->
     IF c.noncritPotential > 0
     THEN (IF c.blackout THEN 0
           ELSE ((c.noncritUsed \div KWH) * PERMILLE) \div (c.noncritPotential \div KWH))
     ELSE 0,
   blackout |-> c.blackout,
   battIn |-> c.batt.battIn,
   battOut |-> 0 - c.batt.battOut,
   chargeCRateLimited |-> c.batt.chargeCRateLimited,
   dischargeCRateLimited |-> c.batt.dischargeCRateLimited]

PowerReport(c) ==
  [producers |-> c.producers,
   criticalDemand |-> c.critical,
   nonCriticalDemand |-> c.noncritPotential,
   nonCriticalEff |->
     IF c.noncritPotential > 0
     THEN (IF c.blackout THEN 0
           ELSE ((c.noncritUsed \div KWH) * PERMILLE) \div (c.noncritPotential \div KWH))
     ELSE 0,
   blackout |-> c.blackout,
   battIn |-> c.batt.battIn,
   battOut |-> c.batt.battOut,
   chargeCRateLimited |-> c.batt.chargeCRateLimited,
   dischargeCRateLimited |-> c.batt.dischargeCRateLimited]
\* 9), 10), 11): the state the call leaves, with its local variables
SimApply(s, c) ==
  c @@ [s |-> [s EXCEPT !.res.powerStored = c.powerStored,
                        !.res.water = c.water, !.res.oxygen = c.oxygen,
                        !.res.food = c.food,
                        !.morale = clampv(@ + MoraleDelta(s, c), 0, 1000),
                        !.lastPower = PowerReport(c)]]

\* [s, producers, critical, noncritPotential, stormMult, buildings, soc0, cap,
\*  deliverableMax, nonCritBudget, chosen, runFlags, noncritUsed, batt,
\*  powerStored, blackout, flowing, ...]
simulateHourRun(s) ==
  SimApply(s, SimFlows(s, SimBlackout(s, SimBattery(s, SimUsed(s, SimChoose(s,
    SimBudget(s, SimWeights(s, SimDemand(s)))))))))

simulateHour(s) == simulateHourRun(s).s

\* ------------------------------------------------------------ invariants
\* checkInvariants: TRUE when every check passes (every quantity of the model is finite)
checkInvariants(s) ==
  LET r == s.res
      lp == s.lastPower
  IN /\ ~(r.powerStored < 0)
     /\ ~(r.batteryCapacity < 0)
     /\ ~(r.powerStored > r.batteryCapacity + 1)
     /\ ~(r.water < 0)
     /\ ~(r.oxygen < 0)
     /\ ~(r.food < 0)
     /\ ~(s.population < 0)
     /\ ~(s.housingCapacity < 0)
     /\ ~(s.morale < 0 \/ s.morale > 1000)
     /\ ~(s.batteryCRate < 0)
     /\ ~(s.batteryEtaIn <= 0 \/ s.batteryEtaIn > PERCENT)
     /\ ~(s.batteryEtaOut <= 0 \/ s.batteryEtaOut > PERCENT)
     /\ ~(lp.nonCriticalEff < 0 \/ lp.nonCriticalEff > 1000)
     /\ ~(lp.battIn < 0)
     /\ ~(lp.battOut < 0)
     /\ ~(s.hour < 0)

\* ---------------------------------------------------------- advanceHours
\* What one call leaves behind: the game, whether an exception left the call,
\* the order lines printed, the game as the last hour began, the steps of the
\* last hour in the order they ran, and the local variables of the last
\* simulateHour.
\* the lambda bad of checkInvariants: a failed check prints when verbose
invariantsPrinted(s, verbose) == verbose /\ ~checkInvariants(s)

NoLocals ==
  [producers |-> 0, critical |-> 0, noncritPotential |-> 0, stormMult |-> 0,
   buildings |-> <<>>, soc0 |-> 0, cap |-> 0, deliverableMax |-> 0,
   nonCritBudget |-> 0, chosen |-> <<>>, runFlags |-> {}, noncritUsed |-> 0,
   blackout |-> FALSE, flowing |-> {}]

\* failed: the hours whose invariant check failed; reported: those of them for
\* which checkInvariants printed its "[Invariant]" lines
StartRun(g) ==
  [g |-> g, raised |-> FALSE, orders |-> <<>>, at |-> g, log |-> <<>>, loc |-> NoLocals,
   failed |-> <<>>, reported |-> <<>>, trace |-> <<>>]

\* what one hour of advanceHours did with the events and the effects: the
\* state maybeSpawnEvents was called on and the state it left, the solar factor
\* simulateHour used, the generator as simulateHour left it, and the effect
\* list tickEffects left
TickNote(s) ==
  [hour |-> s.hour, from |-> s, to |-> maybeSpawnEvents(s), mult |-> PERMILLE,
   used |-> s.rng, kept |-> s.effects, ran |-> FALSE]
Noted(trace, f, v) == [trace EXCEPT ![Len(trace)][f] = v]

Locals(run) == [f \in DOMAIN NoLocals |-> run[f]]

\* one statement of the loop body of advanceHours; skipped once an exception is
\* on its way out
TickStep(r, step) ==
  IF r.raised THEN r
  ELSE LET logged == [r EXCEPT !.log = Append(@, step)] IN
    CASE step = "commands" ->
           LET a == applyCommandsForHour(r.g, r.g.s.hour)
           IN [logged EXCEPT !.g = a.g, !.raised = a.raised, !.orders = @ \o a.orders]
      [] step = "events" ->
           [logged EXCEPT !.g.s = maybeSpawnEvents(@),
                          !.trace = Append(@, TickNote(r.g.s))]
      [] step = "dispatch" ->
           LET run == simulateHourRun(r.g.s)
           IN [logged EXCEPT !.g.s = run.s, !.loc = Locals(run),
                             !.trace = Noted(Noted(@, "mult", run.stormMult),
                                             "used", run.s.rng)]
      [] step = "effects" ->
           [logged EXCEPT !.g.s = tickEffects(@),
                          !.trace = Noted(Noted(@, "kept", tickEffects(r.g.s).effects),
                                          "ran", TRUE)]
      [] step = "invariants" ->
           \* if (!checkInvariants(false) && hardFailOnInvariant) throw
           [logged EXCEPT
              !.raised = ~checkInvariants(r.g.s) /\ r.g.hardFailOnInvariant,
              !.failed = IF checkInvariants(r.g.s) THEN @ ELSE Append(@, r.g.s.hour),
              !.reported = IF invariantsPrinted(r.g.s, FALSE)
                           THEN Append(@, r.g.s.hour) ELSE @]
      [] OTHER ->
           [logged EXCEPT !.g.s.hour = @ + 1]

\* the loop body with the events rolled before the orders of the hour
TickOrder_eventsFirst ==
  <<"events", "commands", "dispatch", "effects", "invariants", "hour">>

\* the statements of the loop body, in program order
TickOrder == <<"commands", "events", "dispatch", "effects", "invariants", "hour">>

RECURSIVE RunSteps(_, _)
RunSteps(r, steps) ==
  IF steps = <<>> THEN r ELSE RunSteps(TickStep(r, Head(steps)), Tail(steps))

RECURSIVE advanceLoop(_, _)
advanceLoop(r, hours) ==
  IF hours <= 0 \/ r.raised THEN r
  ELSE advanceLoop(RunSteps([r EXCEPT !.log = <<>>, !.at = r.g], TickOrder), hours - 1)

\* [g, raised, orders, at, log, loc]
advanceHours(g, hours) == advanceLoop(StartRun(g), Max(0, hours))

\* ---------------------------------------------------------- forecastHours
ForecastPoint(s) ==
  [batt |-> s.res.powerStored,
   prod |-> s.lastPower.producers,
   crit |-> s.lastPower.criticalDemand,
   noncritRun |-> MulDiv(s.lastPower.nonCriticalDemand, s.lastPower.nonCriticalEff, PERMILLE),
   battIn |-> s.lastPower.battIn,
   battOut |-> s.lastPower.battOut,
   blackout |-> s.lastPower.blackout,
   solv |-> s.hour \div SOL_HOURS,
   hourv |-> s.hour % SOL_HOURS]

\* the loop body with the events of a live hour rolled in it
forecastTick_spawning(s) ==
  [tickEffects(simulateHour(maybeSpawnEvents(s))) EXCEPT !.hour = @ + 1]

\* the loop body after the orders of the hour were applied
forecastTick(s) == [tickEffects(simulateHour(s)) EXCEPT !.hour = @ + 1]

\* one hour of the look-ahead: the colony as the hour began, after the orders
\* of the hour, and as the hour ended; built is the number of orders applied
LookNote(f, a, s) ==
  [hour |-> a.g.s.hour, start |-> f.g.s, from |-> a.g.s, done |-> s,
   built |-> Len(a.applied)]

forecastPush(f, a, s) ==
  [g |-> [a.g EXCEPT !.s = s], raised |-> FALSE,
   applied |-> f.applied \o a.applied,
   series |-> Append(f.series, ForecastPoint(s)),
   trace |-> Append(f.trace, LookNote(f, a, s))]

\* the look-ahead loop; f = [g, raised, applied, series]
RECURSIVE forecastLoop(_, _)
forecastBody(f, a, hours) ==
  IF a.raised THEN [f EXCEPT !.g = a.g, !.raised = TRUE]
  ELSE forecastLoop(forecastPush(f, a, forecastTick(a.g.s)), hours - 1)
forecastLoop(f, hours) ==
  IF hours <= 0 \/ f.raised THEN f
  ELSE forecastBody(f, applyCommandsForHour(f.g, f.g.s.hour), hours)

\* the restore with "s = std::move(backup)" left out
forecastRestore_flagAndQueue(g, backup) ==
  [g EXCEPT !.forecastMode = backup.forecastMode,
            !.pendingCommands = backup.pendingCommands]

\* the restore with "pendingCommands = std::move(cmdBackup)" left out
forecastRestore_flagAndState(g, backup) ==
  [g EXCEPT !.forecastMode = backup.forecastMode, !.s = backup.s]

\* the statements after the loop: forecastMode, s and pendingCommands put back
forecastRestore(g, backup) ==
  [g EXCEPT !.forecastMode = backup.forecastMode,
            !.s = backup.s,
            !.pendingCommands = backup.pendingCommands]

forecastFinish(f, backup) ==
  IF f.raised THEN f ELSE [f EXCEPT !.g = forecastRestore(f.g, backup)]

\* [g, raised, applied, series]: an exception leaves the call from inside the loop, and
\* the statements after the loop do not run
forecastHours(g, hours) ==
  forecastFinish(forecastLoop([g |-> [g EXCEPT !.forecastMode = TRUE], raised |-> FALSE,
                               applied |-> <<>>, series |-> <<>>, trace |-> <<>>],
                              Max(0, hours)), g)

\* the summary after the restore: minBat and maxBat dereference what
\* std::min_element and std::max_element return, which for an empty series is
\* end().  That read is undefined: the call faults, or goes on with whatever
\* the address holds.  reads: the positions of batt dereferenced.
forecastSummary(f, undefined) ==
  IF f.raised THEN f @@ [ret |-> [reads |-> {}, minBat |-> 0, maxBat |-> 0]]
  ELSE IF f.series = <<>>
       THEN [f EXCEPT !.raised = undefined.fault]
            @@ [ret |-> [reads |-> {Len(f.series) + 1},
                         minBat |-> undefined.value, maxBat |-> undefined.value]]
       ELSE f @@ [ret |-> [reads |-> 1 .. Len(f.series),
                           minBat |-> CHOOSE x \in {f.series[i].batt : i \in 1 .. Len(f.series)} :
                                        \A i \in 1 .. Len(f.series) : x <= f.series[i].batt,
                           maxBat |-> CHOOSE x \in {f.series[i].batt : i \in 1 .. Len(f.series)} :
                                        \A i \in 1 .. Len(f.series) : x >= f.series[i].batt]]

\* --------------------------------------------------------- loadReplayFile
\* A replay file after its header: whether it names a seed, the seed, and its
\* command lines "h <hour> build <typeInt>" in file order.  The type is read as
\* an int and stored unchecked; the lines go into pendingCommands directly, not
\* through submit.
RECURSIVE emplaceAll(_, _)
emplaceAll(g, cmds) ==
  IF cmds = <<>> THEN g ELSE emplaceAll(enqueue(g, Head(cmds)), Tail(cmds))

loadReplayFile(g, file, allowSeedOverride, userProvidedSeedOrSaveAlready) ==
  LET queued == emplaceAll(g, file.cmds)
  IN IF file.hasSeed /\ allowSeedOverride /\ ~userProvidedSeedOrSaveAlready
     THEN setSeed(queued, file.seed)
     ELSE queued

\* ------------------------------------------------- saveToFile, loadFromFile
\* A file: whether it can be opened, its header "<tag> <version>" and its
\* lines, each a key and the values after it.  Doubles are written with 17
\* significant digits and read back as the same double.
NoFile == [opens |-> FALSE, tag |-> "", version |-> 0, lines |-> <<>>]

\* "b <type> <active>" lines
BuildingLines(buildings) ==
  [i \in 1 .. Len(buildings) |->
     [tag |-> "b", t |-> buildings[i].type, act |-> IF buildings[i].active THEN 1 ELSE 0]]

\* "e 0 <hoursRemaining> <solarMultiplier>" lines
EffectLines(effects) ==
  [i \in 1 .. Len(effects) |->
     [tag |-> "e", t |-> 0, hrs |-> effects[i].hoursRemaining,
      mult |-> effects[i].solarMultiplier]]

saveToFile(s) ==
  [opens |-> TRUE, tag |-> "MARS_SAVE", version |-> 2,
   lines |-> <<
     [key |-> "hour", v |-> s.hour],
     [key |-> "population", v |-> s.population],
     [key |-> "housing", v |-> s.housingCapacity],
     [key |-> "morale", v |-> s.morale],
     [key |-> "res", v |-> s.res],
     [key |-> "buildings", v |-> BuildingLines(s.buildings)],
     [key |-> "effects", v |-> EffectLines(s.effects)],
     [key |-> "lastpower",
      v |-> [producers |-> s.lastPower.producers,
             criticalDemand |-> s.lastPower.criticalDemand,
             nonCriticalDemand |-> s.lastPower.nonCriticalDemand,
             nonCriticalEff |-> s.lastPower.nonCriticalEff,
             blackoutInt |-> IF s.lastPower.blackout THEN 1 ELSE 0]],
     [key |-> "battery",
      v |-> [cRate |-> s.batteryCRate, etaIn |-> s.batteryEtaIn, etaOut |-> s.batteryEtaOut]],
     [key |-> "rngseed", v |-> s.rngSeed],
     [key |-> "rngstate", v |-> [parses |-> TRUE, st |-> s.rng]],
     [key |-> "end", v |-> 0] >>]

\* every line of the block carries the expected tag
TagsGood(ls, tag) == \A i \in 1 .. Len(ls) : ls[i].tag = tag

\* one turn of the while loop of loadFromFile on the line l: [s, failed],
\* failed when the function returns false from inside the loop
readLine(loaded, l) ==
  CASE l.key = "hour" -> [s |-> [loaded EXCEPT !.hour = l.v], failed |-> FALSE]
    [] l.key = "population" -> [s |-> [loaded EXCEPT !.population = l.v], failed |-> FALSE]
    [] l.key = "housing" -> [s |-> [loaded EXCEPT !.housingCapacity = l.v], failed |-> FALSE]
    [] l.key = "morale" -> [s |-> [loaded EXCEPT !.morale = l.v], failed |-> FALSE]
    [] l.key = "res" -> [s |-> [loaded EXCEPT !.res = l.v], failed |-> FALSE]
    [] l.key = "buildings" ->
         [s |-> [loaded EXCEPT !.buildings =
                   [i \in 1 .. Len(l.v) |-> [type |-> l.v[i].t, active |-> l.v[i].act # 0]]],
          failed |-> ~TagsGood(l.v, "b")]
    [] l.key = "effects" ->
         [s |-> [loaded EXCEPT !.effects =
                   [i \in 1 .. Len(l.v) |->
                      [hoursRemaining |-> l.v[i].hrs, solarMultiplier |-> l.v[i].mult]]],
          failed |-> ~TagsGood(l.v, "e")]
    [] l.key = "lastpower" ->
         [s |-> [loaded EXCEPT !.lastPower.producers = l.v.producers,
                               !.lastPower.criticalDemand = l.v.criticalDemand,
                               !.lastPower.nonCriticalDemand = l.v.nonCriticalDemand,
                               !.lastPower.nonCriticalEff = l.v.nonCriticalEff,
                               !.lastPower.blackout = (l.v.blackoutInt # 0)],
          failed |-> FALSE]
    [] l.key = "battery" ->
         [s |-> [loaded EXCEPT !.batteryCRate = l.v.cRate, !.batteryEtaIn = l.v.etaIn,
                               !.batteryEtaOut = l.v.etaOut],
          failed |-> FALSE]
    [] l.key = "rngseed" -> [s |-> [loaded EXCEPT !.rngSeed = l.v], failed |-> FALSE]
    [] l.key = "rngstate" ->
         \* iss >> loaded.rng: a state that does not parse leaves the generator
         \* as GameState() seeded it, and nobody looks at the stream
         [s |-> IF l.v.parses THEN [loaded EXCEPT !.rng = l.v.st] ELSE loaded,
          failed |-> FALSE]
    [] OTHER -> [s |-> loaded, failed |-> FALSE]

\* while (ifs >> key): to the line "end", to the end of the file, or to a return false
RECURSIVE readLines(_, _)
readLines(r, lines) ==
  IF lines = <<>> \/ r.failed THEN r
  ELSE IF Head(lines).key = "end" THEN r
  ELSE readLines(readLine(r.s, Head(lines)), Tail(lines))

\* loadFromFile with the lines read into the live state
loadFromFile_inPlace(g, file, rd) ==
  IF ~file.opens THEN [g |-> g, ret |-> FALSE]
  ELSE IF file.tag # "MARS_SAVE" \/ (file.version # 1 /\ file.version # 2)
  THEN [g |-> g, ret |-> FALSE]
  ELSE LET r == readLines([s |-> GameState(rd), failed |-> FALSE], file.lines)
       IN [g |-> [g EXCEPT !.s = r.s], ret |-> ~r.failed]

\* [g, ret]: rd is what std::random_device gives the constructor of `loaded`.
\* The loaded state is swapped in after the loop.
loadFromFile(g, file, rd) ==
  IF ~file.opens THEN [g |-> g, ret |-> FALSE]
  ELSE IF file.tag # "MARS_SAVE" \/ (file.version # 1 /\ file.version # 2)
  THEN [g |-> g, ret |-> FALSE]
  ELSE LET r == readLines([s |-> GameState(rd), failed |-> FALSE], file.lines)
       IN IF r.failed THEN [g |-> g, ret |-> FALSE]
          ELSE [g |-> [g EXCEPT !.s = r.s], ret |-> TRUE]

\* ------------------------------------------------ the engine: loadGame
\* src/engine/loop.hpp: struct GameState of namespace mars after
\* initDefaultGame(s, seed); the battery starts half full
BATTERY_KWH == 40 * KWH

recomputePowerCapacity(s) ==
  LET cap == s.batteries * BATTERY_KWH
  IN [s EXCEPT !.res.powerCapKWh = cap, !.res.powerStored = Min(@, cap)]

initDefaultGame(seed) ==
  [hour |-> 0, colonists |-> 6, solarPanels |-> 4, batteries |-> 2, labs |-> 1,
   res |-> [powerStored |-> BATTERY_KWH, powerCapKWh |-> 2 * BATTERY_KWH],
   weather |-> [dustStorm |-> FALSE, dustStormHours |-> 0, solarMultiplier |-> PERMILLE],
   rng |-> RngSeeded(seed)]

\* doBuild of the engine's menu: 1 solar panel, 2 battery, 3 lab
doBuild(s, c) ==
  CASE c = 1 -> [s EXCEPT !.solarPanels = @ + 1]
    [] c = 2 -> recomputePowerCapacity([s EXCEPT !.batteries = @ + 1])
    [] OTHER -> [s EXCEPT !.labs = @ + 1]

\* the chain of key tests of loadGame on a line "key=val" whose value parses
loadGameLine(tmp, l) ==
  CASE l.key = "hour" -> [tmp EXCEPT !.hour = l.val]
    [] l.key = "colonists" -> [tmp EXCEPT !.colonists = l.val]
    [] l.key = "solarPanels" -> [tmp EXCEPT !.solarPanels = l.val]
    [] l.key = "batteries" -> [tmp EXCEPT !.batteries = l.val]
    [] l.key = "labs" -> [tmp EXCEPT !.labs = l.val]
    [] l.key = "powerStored" -> [tmp EXCEPT !.res.powerStored = l.val]
    [] l.key = "weather_dustStorm" -> [tmp EXCEPT !.weather.dustStorm = (l.val # 0)]
    [] l.key = "weather_dustStormHours" -> [tmp EXCEPT !.weather.dustStormHours = l.val]
    [] l.key = "weather_solarMultiplier" -> [tmp EXCEPT !.weather.solarMultiplier = l.val]
    [] OTHER -> tmp

EngineKeys ==
  {"hour", "colonists", "solarPanels", "batteries", "labs", "powerStored",
   "weather_dustStorm", "weather_dustStormHours", "weather_solarMultiplier"}

\* the getline loop of loadGame: r = [tmp, rngState, raised]; a line without
\* '=' is skipped, std::stoi and std::stod throw on a value that is no number,
\* the value of the rng line is kept for after the loop
RECURSIVE loadGameLines(_, _)
loadGameLines(r, lines) ==
  IF lines = <<>> \/ r.raised THEN r
  ELSE LET l == Head(lines) IN
    loadGameLines(
      IF ~l.hasEquals THEN r
      ELSE IF l.key = "rng" THEN [r EXCEPT !.rngState = l]
      ELSE IF l.key \in EngineKeys /\ ~l.parses THEN [r EXCEPT !.raised = TRUE]
      ELSE [r EXCEPT !.tmp = loadGameLine(@, l)],
      Tail(lines))

NoRngLine == [hasEquals |-> TRUE, key |-> "rng", val |-> 0, parses |-> TRUE, empty |-> TRUE]

\* [s, ret, raised]: the file is read into the copy tmp, which is moved into s
\* at the end; raised when std::stoi or std::stod throws
loadGame(s, file) ==
  IF ~file.opens THEN [s |-> s, ret |-> FALSE, raised |-> FALSE]
  ELSE LET r == loadGameLines([tmp |-> s, rngState |-> NoRngLine, raised |-> FALSE],
                              file.lines)
       IN IF r.raised THEN [s |-> s, ret |-> FALSE, raised |-> TRUE]
          ELSE IF ~r.rngState.empty /\ ~r.rngState.parses
          THEN [s |-> s, ret |-> FALSE, raised |-> FALSE]
          ELSE [s |-> recomputePowerCapacity(
                        IF r.rngState.empty THEN r.tmp
                        ELSE [r.tmp EXCEPT !.rng = r.rngState.val]),
                ret |-> TRUE, raised |-> FALSE]

\* ============================================================ sim::Simulation
\* src/sim: World, Simulation and the checksum of the determinism test.  A
\* World is [tick, colonists, habitats]; a Colonist is [id, oxygen_mg, co2_mg,
\* stress_mil, temp_milK], a Habitat [id, volume_l, pressure_mPa, power_mW],
\* every field 32 bits wide.
World0 == [tick |-> 0, colonists |-> <<>>, habitats |-> <<>>]

\* Simulation(seed): a default World and an Rng seeded with seed; ran is the
\* systems of the last tick in the order they ran
Simulation(seed) == [world |-> World0, rng |-> seed, ran |-> <<>>]

system_power_grid(w) ==
  [w EXCEPT !.habitats = [i \in 1 .. Len(@) |->
     IF @[i].power_mW < 0 THEN [@[i] EXCEPT !.power_mW = 0] ELSE @[i]]]

system_life_support(w) ==
  [w EXCEPT !.habitats = [i \in 1 .. Len(@) |->
     IF @[i].power_mW < 10000 THEN [@[i] EXCEPT !.pressure_mPa = @ - 50] ELSE @[i]]]

system_colonist_needs(w) ==
  [w EXCEPT !.colonists = [i \in 1 .. Len(@) |->
     [@[i] EXCEPT !.oxygen_mg = IF @ - 5 < 0 THEN 0 ELSE @ - 5]]]

\* one system of tick, by name
RunSystem(sim, name) ==
  [sim EXCEPT !.ran = Append(@, name),
              !.world = CASE name = "power_grid" -> system_power_grid(@)
                          [] name = "life_support" -> system_life_support(@)
                          [] OTHER -> system_colonist_needs(@)]

RECURSIVE RunSystems(_, _)
RunSystems(sim, names) ==
  IF names = <<>> THEN sim ELSE RunSystems(RunSystem(sim, Head(names)), Tail(names))

\* the systems in the order of the declarations in Simulation.h
SystemOrder_asDeclared == <<"life_support", "colonist_needs", "power_grid">>

\* the systems in the order tick calls them
SystemOrder == <<"power_grid", "life_support", "colonist_needs">>

\* Simulation::tick(input): the input is not used
tick(sim, input) ==
  [RunSystems([sim EXCEPT !.ran = <<>>], SystemOrder) EXCEPT !.world.tick = @ + 1]

\* FNV-1a, of which the model keeps the low 16 bits: they depend on the low 16
\* bits of the basis (1469598103934665603) and of the prime (1099511628211)
\* only, and on the bytes hashed
HashWidth == 65536
FNV_OFFSET_BASIS == 899
FNV_PRIME == 435

\* a ^ b of two bytes
BitXor(a, b) ==
  LET bit(x, k) == (x \div (2 ^ k)) % 2
      odd(k) == (bit(a, k) + bit(b, k)) % 2
  IN odd(0) + 2 * odd(1) + 4 * odd(2) + 8 * odd(3)
     + 16 * odd(4) + 32 * odd(5) + 64 * odd(6) + 128 * odd(7)

\* h ^= p[i]; h *= prime
fnv1a64_byte(h, byte) ==
  (((h - (h % 256)) + BitXor(h % 256, byte)) * FNV_PRIME) % HashWidth

\* the loop of fnv1a64 from byte i on
RECURSIVE fnv1a64_from(_, _, _)
fnv1a64_from(h, bytes, i) ==
  IF i > Len(bytes) THEN h
  ELSE LET next == fnv1a64_byte(h, bytes[i])
       IN IF next >= 0 THEN fnv1a64_from(next, bytes, i + 1) ELSE next

fnv1a64(h, bytes) == fnv1a64_from(h, bytes, 1)

\* the bytes of a 32-bit and of a 64-bit value in memory, low byte first; a
\* negative int32_t in two's complement
Bytes32(v) == [k \in 1 .. 4 |-> (v \div (256 ^ (k - 1))) % 256]
Bytes64(v) == Bytes32(v) \o [k \in 1 .. 4 |-> IF v < 0 THEN 255 ELSE 0]

ColonistBytes(c) ==
  Bytes32(c.id) \o Bytes32(c.oxygen_mg) \o Bytes32(c.co2_mg) \o Bytes32(c.stress_mil)
  \o Bytes32(c.temp_milK)
HabitatBytes(h) ==
  Bytes32(h.id) \o Bytes32(h.volume_l) \o Bytes32(h.pressure_mPa) \o Bytes32(h.power_mW)

RECURSIVE ArrayBytes(_, _)
ArrayBytes(seq, kind) ==
  IF seq = <<>> THEN <<>>
  ELSE (IF kind = "Colonist" THEN ColonistBytes(Head(seq)) ELSE HabitatBytes(Head(seq)))
       \o ArrayBytes(Tail(seq), kind)

\* World::checksum
checksum(w) ==
  LET bytes == Bytes64(w.tick) \o ArrayBytes(w.colonists, "Colonist")
               \o ArrayBytes(w.habitats, "Habitat")
  IN fnv1a64(FNV_OFFSET_BASIS, [k \in 1 .. Len(bytes) |-> bytes[k]])

\* no determinism test running
NoSims == [a |-> Simulation(0), b |-> Simulation(0), was |-> World0, input |-> 0]

\* ===================================================================== state
VARIABLES
  game,    \* the Game of main
  twin,    \* a second Game, constructed apart, given the same seed and operations
  status,  \* "startup" | "running" | "failed" (an exception reached main)
  last,    \* the last operation: its name, argument and what it left behind
  pre,     \* game as it was when the last operation began
  nsub,    \* commands submitted so far
  origin,  \* the hour at which the run began
  disk,    \* the save file of the run
  nio,     \* saves and loads so far
  engine,  \* the GameState of the engine's command line program, and what it
           \* was when its last operation began
  sims     \* the two sim::Simulation of the determinism test

vars == <<game, twin, status, last, pre, nsub, origin, disk, nio, engine, sims>>

\* seeds of the runs explored; each fires other events in the first hour
Seeds == {1, 242, 268}
\* kinds a replay line may name: a facility, one too dear to build, one outside the catalog
ReplayKinds == {SolarArray, RTG, RTG + 1}
ReplayHours == {0, 2}
\* kinds chosen in the build menu: a producer, storage, a critical load, a
\* non-critical load, one too dear to build
BuildChoices == {SolarArray, BatteryBank, Habitat, Greenhouse, RTG}
ReplayCmds == [hour : ReplayHours, a : ReplayKinds]
ReplayFiles ==
  {[hasSeed |-> FALSE, seed |-> 0, cmds |-> c] :
     c \in UNION {[1 .. n -> ReplayCmds] : n \in 1 .. MaxReplay}}

\* the engine's program not running
EngineIdle == [s |-> initDefaultGame(42), was |-> initDefaultGame(42)]

Op(name, arg, run) ==
  [op |-> name, arg |-> arg, raised |-> run.raised, orders |-> run.orders,
   at |-> run.at, log |-> run.log, loc |-> run.loc, series |-> run.series,
   applied |-> run.applied, failed |-> run.failed, reported |-> run.reported,
   ret |-> run.ret, trace |-> run.trace]

Quiet(g) == StartRun(g) @@ [series |-> <<>>, applied |-> <<>>, ret |-> TRUE]

\* main: Game g; g.setSeed(seedOverride); g.enableHardInvariants(true) when
\* --check-invariants is given (main enables it after the replay is loaded,
\* which reads and writes other members)
Init ==
  \E rd1 \in Seeds, rd2 \in Seeds, seed \in Seeds, hard \in BOOLEAN :
    /\ game = enableHardInvariants(setSeed(NewGame(rd1), seed), hard)
    /\ twin = enableHardInvariants(setSeed(NewGame(rd2), seed), hard)
    /\ status = "startup"
    /\ last = Op("init", seed, Quiet(game))
    /\ pre = game
    /\ nsub = 0
    /\ origin = 0
    /\ disk = NoFile
    /\ nio = 0
    /\ engine = EngineIdle
    /\ sims = NoSims

Alive == status \in {"startup", "running"}

\* what an operation leaves: run is its result on game, other its result on twin
Done(name, arg, run, other, submitted) ==
  /\ game' = run.g
  /\ twin' = other.g
  /\ status' = IF run.raised THEN "failed" ELSE "running"
  /\ last' = Op(name, arg, run @@ Quiet(game))
  /\ pre' = game
  /\ nsub' = nsub + submitted
  /\ origin' = origin
  /\ UNCHANGED <<disk, nio, engine, sims>>

\* main: g.loadReplayFile(replayPath, true, seedProvided || saveLoaded)
LoadReplay ==
  \E file \in ReplayFiles :
    /\ status = "startup"
    /\ nsub + Len(file.cmds) <= MaxCmds
    /\ Done("replay", file.cmds,
            [g |-> loadReplayFile(game, file, TRUE, TRUE)] @@ Quiet(game),
            [g |-> loadReplayFile(twin, file, TRUE, TRUE)], Len(file.cmds))

\* menu 5: doBuildMenu -> queueBuildNow(chosen)
Build ==
  \E t \in BuildChoices :
    /\ Alive
    /\ nsub < MaxCmds
    /\ Done("build", t, queueBuildNow(game, t), queueBuildNow(twin, t), 1)

\* menu 2, 3, 4: advanceHours(hours)
Advance ==
  \E hours \in 1 .. MaxAdvance :
    /\ Alive
    /\ game.s.hour + hours <= origin + MaxHour
    /\ Done("advance", hours, advanceHours(game, hours), advanceHours(twin, hours), 0)

\* menu 9: forecastHours(hours)
Forecast ==
  \E hours \in 1 .. MaxForecast :
    /\ Alive
    /\ Done("forecast", hours, forecastHours(game, hours), forecastHours(twin, hours), 0)

\* ------------------------------------------------------- runs from a save
\* main --load FILE: the colony of a save file, then the menu.  The saves are
\* the starter colony at midnight or at noon, with the battery level and the
\* battery parameters of the file.
\* battery levels of the saves: empty, a level whose deliverable energy is
\* 1e-6 kWh short of the critical demand, a level that leaves a non-critical
\* budget just under 8 kWh, one that leaves a budget for one non-critical load
\* of the three, the default, and nearly full
MidnightLevels == {0, 3684210, 12060000, 20 * KWH, 300 * KWH}
NoonLevels == {300 * KWH, 790 * KWH}
DefaultBattery == [cRate |-> 50, etaIn |-> 92, etaOut |-> 95]
LosslessBattery == [cRate |-> 50, etaIn |-> 100, etaOut |-> 100]
InertBattery == [cRate |-> 0, etaIn |-> 92, etaOut |-> 95]
SaveChoices ==
  {<<0, level, DefaultBattery>> : level \in MidnightLevels}
  \cup {<<12, level, DefaultBattery>> : level \in NoonLevels}
  \cup {<<h, 300 * KWH, LosslessBattery>> : h \in {0, 12}}
  \cup {<<h, 300 * KWH, InertBattery>> : h \in {0, 12}}
SaveFiles ==
  {[initStarter(GameState(1)) EXCEPT
      !.hour = c[1], !.res.powerStored = c[2],
      !.batteryCRate = c[3].cRate, !.batteryEtaIn = c[3].etaIn,
      !.batteryEtaOut = c[3].etaOut] : c \in SaveChoices}

InitLoaded ==
  \E rd1 \in Seeds, rd2 \in Seeds, save \in SaveFiles :
    /\ game = loadFromFile(NewGame(rd1), saveToFile(save), rd1).g
    /\ twin = loadFromFile(NewGame(rd2), saveToFile(save), rd2).g
    /\ status = "startup"
    /\ last = Op("load", save.hour, Quiet(game))
    /\ pre = game
    /\ nsub = 0
    /\ origin = save.hour
    /\ disk = NoFile
    /\ nio = 0
    /\ engine = EngineIdle
    /\ sims = NoSims

NextLoaded == Build \/ Advance \/ Forecast

SpecLoaded == InitLoaded /\ [][NextLoaded]_vars

\* ------------------------------------------- the optimizer on its own
\* chooseNonCriticalLoads called on a loaded colony with a budget and weights:
\* the starter colony with up to MaxExtra further facilities, or with its
\* Greenhouse switched off in the save.
RECURSIVE Installed(_, _)
Installed(s, types) ==
  IF types = <<>> THEN s ELSE Installed(addBuilding(s, Head(types)), Tail(types))

ExtraKinds == {Greenhouse, WaterExtractor, Electrolyzer, Habitat}
Extras == UNION {[1 .. n -> ExtraKinds] : n \in 0 .. MaxExtra}
SwitchedOff(s, t) ==
  [s EXCEPT !.buildings = [i \in DOMAIN @ |-> IF @[i].type = t
                                               THEN [@[i] EXCEPT !.active = FALSE]
                                               ELSE @[i]]]
KnapSaves ==
  {Installed(initStarter(GameState(1)), e) : e \in Extras}
  \cup {SwitchedOff(initStarter(GameState(1)), Greenhouse)}
  \cup {SwitchedOff(SwitchedOff(SwitchedOff(initStarter(GameState(1)), Greenhouse),
                                 WaterExtractor), Electrolyzer)}
\* budgets: none, one that rounds to no capacity, each side of 8 kWh, and larger
KnapBudgets ==
  {0, 40000, 7949999, 7950000, 10 * KWH, 17 * KWH + 900000, 20 * KWH, 22 * KWH,
   28 * KWH, 30 * KWH, 41 * KWH}
\* <<wFood, wO2, wWater>>, per mille: stocks all ample, one stock nearly out,
\* food and water out with oxygen for 114 hours
KnapWeights ==
  {<<1000, 1000, 1000>>, <<73000, 1000, 1000>>, <<1000, 1000, 73000>>,
   <<4000, 2500, 9000>>, <<73000, 1626, 73000>>}

InitKnap ==
  \E save \in KnapSaves :
    /\ game = loadFromFile(NewGame(1), saveToFile(save), 1).g
    /\ twin = loadFromFile(NewGame(1), saveToFile(save), 1).g
    /\ status = "startup"
    /\ last = Op("load", 0, Quiet(game))
    /\ pre = game
    /\ nsub = 0
    /\ origin = 0
    /\ disk = NoFile
    /\ nio = 0
    /\ engine = EngineIdle
    /\ sims = NoSims

Choose ==
  \E budget \in KnapBudgets, w \in KnapWeights :
    /\ last' = [Op("choose",
                   [powerBudget |-> budget, wFood |-> w[1], wO2 |-> w[2], wWater |-> w[3]],
                   Quiet(game))
                EXCEPT !.loc.chosen =
                  chooseNonCriticalLoads(game.s, budget, w[1], w[2], w[3])]
    /\ UNCHANGED <<game, twin, status, pre, nsub, origin, disk, nio, engine, sims>>

NextKnap == Choose

SpecKnap == InitKnap /\ [][NextKnap]_vars

\* ------------------------------------------------- runs that save and load
\* Either program: the single-file game with its menu entries 7 (save) and 8
\* (load) and a second game that loads the file the first one saved, or the
\* engine's command line program with its build and load entries.
MaxEngineBuilds == 2
MaxFileOps == 2
\* the seed std::random_device gives a Game constructed for loading
OtherSeed == 268
\* what a file handed to loadFromFile may be: the file as saved, no file,
\* another header tag, an unsupported version, cut after four lines, the line
\* "end" missing, an rngstate line that does not parse, a building line with
\* another tag, battery parameters edited to a charge efficiency of 150%
Damages ==
  {"intact", "missing", "badTag", "version", "cut", "noEnd", "badRng", "badBuilding",
   "edited"}

Damaged(file, d) ==
  IF ~file.opens \/ d = "missing" THEN NoFile
  ELSE CASE d = "badTag" -> [file EXCEPT !.tag = "MARS_SAV"]
         [] d = "version" -> [file EXCEPT !.version = 3]
         [] d = "cut" -> [file EXCEPT !.lines = SubSeq(@, 1, Min(4, Len(@)))]
         [] d = "noEnd" -> [file EXCEPT !.lines = SelectSeq(@, LAMBDA l : l.key # "end")]
         [] d = "badRng" ->
              [file EXCEPT !.lines =
                 [i \in 1 .. Len(@) |->
                    IF @[i].key = "rngstate" THEN [@[i] EXCEPT !.v.parses = FALSE] ELSE @[i]]]
         [] d = "badBuilding" ->
              [file EXCEPT !.lines =
                 [i \in 1 .. Len(@) |->
                    IF @[i].key = "buildings" /\ @[i].v # <<>>
                    THEN [@[i] EXCEPT !.v[1].tag = "x"] ELSE @[i]]]
         [] d = "edited" ->
              [file EXCEPT !.lines =
                 [i \in 1 .. Len(@) |->
                    IF @[i].key = "battery" THEN [@[i] EXCEPT !.v.etaIn = 150] ELSE @[i]]]
         [] OTHER -> file

\* files handed to loadGame: "key=val" lines of another colony, whole; no
\* file; with an rng value that is no generator state; with an hour that is
\* no number; with a line that has no '='
EngineLine(key, val) ==
  [hasEquals |-> TRUE, key |-> key, val |-> val, parses |-> TRUE, empty |-> FALSE]

EngineSave ==
  <<EngineLine("hour", 5), EngineLine("batteries", 1),
    EngineLine("powerStored", 70 * KWH), EngineLine("rng", RngSeeded(7))>>

EngineFiles ==
  {[name |-> "intact", opens |-> TRUE, lines |-> EngineSave],
   [name |-> "missing", opens |-> FALSE, lines |-> <<>>],
   [name |-> "badRng", opens |-> TRUE,
    lines |-> [EngineSave EXCEPT ![4].parses = FALSE]],
   [name |-> "badNumber", opens |-> TRUE,
    lines |-> [EngineSave EXCEPT ![1].parses = FALSE]],
   [name |-> "noEquals", opens |-> TRUE,
    lines |-> [EngineSave EXCEPT ![2].hasEquals = FALSE]]}

InitSave ==
  \/ \E seed \in Seeds, hard \in BOOLEAN :
       /\ game = enableHardInvariants(setSeed(NewGame(seed), seed), hard)
       /\ twin = enableHardInvariants(NewGame(OtherSeed), hard)
       /\ status = "startup"
       /\ last = Op("init", seed, Quiet(game))
       /\ pre = game
       /\ nsub = 0
       /\ origin = 0
       /\ disk = NoFile
       /\ nio = 0
       /\ engine = EngineIdle
       /\ sims = NoSims
  \/ /\ game = NewGame(1)
     /\ twin = NewGame(1)
     /\ status = "engine"
     /\ last = Op("init", 42, Quiet(game))
     /\ pre = game
     /\ nsub = 0
     /\ origin = 0
     /\ disk = NoFile
     /\ nio = 0
     /\ engine = EngineIdle
     /\ sims = NoSims

\* menu 7: saveToFile
Save ==
  /\ Alive
  /\ nio < MaxFileOps
  /\ nio' = nio + 1
  /\ disk' = saveToFile(game.s)
  /\ last' = Op("save", 0, Quiet(game))
  /\ pre' = game
  /\ status' = "running"
  /\ UNCHANGED <<game, twin, nsub, origin, engine, sims>>

\* menu 8: loadFromFile
Load ==
  \E d \in Damages :
    LET r == loadFromFile(game, Damaged(disk, d), OtherSeed) IN
      /\ Alive
      /\ nio < MaxFileOps
      /\ nio' = nio + 1
      /\ game' = r.g
      /\ last' = Op("load", d, [ret |-> r.ret] @@ Quiet(game))
      /\ pre' = game
      /\ status' = "running"
      /\ UNCHANGED <<twin, nsub, origin, disk, engine, sims>>

\* a second game, main --load FILE: loadFromFile of the file the first one saved
LoadOther ==
  LET r == loadFromFile(twin, disk, OtherSeed) IN
    /\ Alive
    /\ nio < MaxFileOps
    /\ nio' = nio + 1
    /\ disk.opens
    /\ twin' = r.g
    /\ last' = Op("loadOther", "intact", [ret |-> r.ret] @@ Quiet(game))
    /\ pre' = game
    /\ status' = "running"
    /\ UNCHANGED <<game, nsub, origin, disk, engine, sims>>

\* src/ui/cli/main.cpp menu 4: doBuild
EngineBuild ==
  \E c \in 1 .. 3 :
    /\ status = "engine"
    /\ engine.s.solarPanels + engine.s.batteries + engine.s.labs
         < initDefaultGame(42).solarPanels + initDefaultGame(42).batteries
           + initDefaultGame(42).labs + MaxEngineBuilds
    /\ engine' = [s |-> doBuild(engine.s, c), was |-> engine.s]
    /\ last' = Op("doBuild", c, Quiet(game))
    /\ UNCHANGED <<game, twin, status, pre, nsub, origin, disk, nio, sims>>

\* src/ui/cli/main.cpp menu 7: doLoad -> loadGame; nothing catches what it throws
EngineLoad ==
  \E f \in EngineFiles :
    LET r == loadGame(engine.s, f) IN
      /\ status = "engine"
      /\ nio < MaxFileOps
      /\ nio' = nio + 1
      /\ engine' = [s |-> r.s, was |-> engine.s]
      /\ last' = Op("loadGame", f.name, [ret |-> r.ret, raised |-> r.raised] @@ Quiet(game))
      /\ status' = IF r.raised THEN "failed" ELSE "engine"
      /\ UNCHANGED <<game, twin, pre, nsub, origin, disk, sims>>

NextSave == Advance \/ Save \/ Load \/ LoadOther \/ EngineBuild \/ EngineLoad

SpecSave == InitSave /\ [][NextSave]_vars

\* ------------------------------------------------- runs that are recorded
\* main --seed S --record FILE: a fresh game that records the builds of its
\* menu; and a second program run, main --replay FILE --headless N with or
\* without --seed S, made when the first game has just advanced, that loads
\* the file recorded so far and advances as many hours as the first game has.
InitRecord ==
  \E rd1 \in Seeds, seed \in Seeds :
    /\ game = startRecordingTo(setSeed(NewGame(rd1), seed))
    /\ twin = setSeed(NewGame(rd1), seed)
    /\ status = "startup"
    /\ last = Op("init", seed, Quiet(game))
    /\ pre = game
    /\ nsub = 0
    /\ origin = 0
    /\ disk = NoFile
    /\ nio = 0
    /\ engine = EngineIdle
    /\ sims = NoSims

\* the game has not built since its last tick
AfterTick == last.op \in {"advance", "rerun"}

Rerun ==
  \E seeded \in BOOLEAN :
    LET fresh == NewGame(OtherSeed)
        loaded == IF seeded
                  THEN loadReplayFile(setSeed(fresh, game.s.rngSeed), game.recordFile,
                                      TRUE, TRUE)
                  ELSE loadReplayFile(fresh, game.recordFile, TRUE, FALSE)
        run == advanceHours(loaded, game.s.hour)
    IN /\ Alive
       /\ AfterTick
       /\ twin' = run.g
       /\ last' = Op("rerun", game.s.hour, run @@ Quiet(game))
       /\ pre' = game
       /\ UNCHANGED <<game, status, nsub, origin, disk, nio, engine, sims>>

NextRecord == Build \/ Advance \/ Rerun

SpecRecord == InitRecord /\ [][NextRecord]_vars

\* ------------------------------------------- runs resumed with a replay
\* main --load FILE --replay FILE: loadFromFile, then loadReplayFile, then the
\* menu.  The saves are the starter colony at hour 0 and at hour 1; the replay
\* files are those of ReplayFiles, whose hours are 0 and 2.
ResumeHours == {0, 1}
ResumeSaves == {[initStarter(GameState(1)) EXCEPT !.hour = h] : h \in ResumeHours}

InitResume ==
  \E save \in ResumeSaves :
    /\ game = loadFromFile(NewGame(OtherSeed), saveToFile(save), OtherSeed).g
    /\ twin = loadFromFile(NewGame(OtherSeed), saveToFile(save), OtherSeed).g
    /\ status = "startup"
    /\ last = Op("load", save.hour, Quiet(game))
    /\ pre = game
    /\ nsub = 0
    /\ origin = save.hour
    /\ disk = NoFile
    /\ nio = 0
    /\ engine = EngineIdle
    /\ sims = NoSims

NextResume == LoadReplay \/ Build \/ Advance

SpecResume == InitResume /\ [][NextResume]_vars

\* ------------------------------------------------------- runs over sols
\* The starter colony advanced a sol at a time (menu 4), with builds from the
\* menu in between.  The seeds: one with no
\* storm in the first cycle, one with a storm of 37 hours at hour 0 and another
\* at hour 24, one with a storm, a strike and a supply drop at hour 0 and a
\* storm at hour 24.
MaxSols == 2
SolSeeds == {1, 44, 268}

InitSols ==
  \E rd1 \in Seeds, seed \in SolSeeds :
    /\ game = setSeed(NewGame(rd1), seed)
    /\ twin = setSeed(NewGame(rd1), seed)
    /\ status = "startup"
    /\ last = Op("init", seed, Quiet(game))
    /\ pre = game
    /\ nsub = 0
    /\ origin = 0
    /\ disk = NoFile
    /\ nio = 0
    /\ engine = EngineIdle
    /\ sims = NoSims

\* menu 4: advanceHours(24)
AdvanceSol ==
  /\ Alive
  /\ game.s.hour + SOL_HOURS <= origin + MaxSols * SOL_HOURS
  /\ Done("advance", SOL_HOURS, advanceHours(game, SOL_HOURS),
          advanceHours(twin, SOL_HOURS), 0)

\* main --autorun N: g.advanceHours(N) before the menu, N a number of sols
Autorun ==
  \E sols \in 1 .. MaxSols :
    /\ status = "startup"
    /\ Done("advance", sols * SOL_HOURS, advanceHours(game, sols * SOL_HOURS),
            advanceHours(twin, sols * SOL_HOURS), 0)
NextSols == Autorun \/ Build \/ AdvanceSol

SpecSols == InitSols /\ [][NextSols]_vars

\* ------------------------------------------------- the 24 hour forecast
\* The starter colony at hour 0 with a replay loaded and builds from the menu,
\* and the forecast of menu 9, whose look-ahead begins on the cycle boundary
\* of hour 0.
InitLook ==
  \E rd1 \in Seeds, seed \in SolSeeds :
    /\ game = setSeed(NewGame(rd1), seed)
    /\ twin = setSeed(NewGame(rd1), seed)
    /\ status = "startup"
    /\ last = Op("init", seed, Quiet(game))
    /\ pre = game
    /\ nsub = 0
    /\ origin = 0
    /\ disk = NoFile
    /\ nio = 0
    /\ engine = EngineIdle
    /\ sims = NoSims

\* menu 9: forecastHours(24)
ForecastSol ==
  /\ Alive
  /\ Done("forecast", SOL_HOURS, forecastHours(game, SOL_HOURS),
          forecastHours(twin, SOL_HOURS), 0)

NextLook == LoadReplay \/ Build \/ ForecastSol

SpecLook == InitLook /\ [][NextLook]_vars

\* ------------------------------------------------ the forecast of no hours
\* forecastHours called with a count of hours that is not positive, on the
\* starter colony with a replay loaded and builds from the menu.
NoHours == {0, -1}
\* what the undefined read does: a fault, or a value found at the address
Undefined == [fault : BOOLEAN, value : {0, 77 * KWH}]

ForecastNone ==
  \E hours \in NoHours, undefined \in Undefined :
    /\ Alive
    /\ Done("forecast", hours, forecastSummary(forecastHours(game, hours), undefined),
            forecastSummary(forecastHours(twin, hours), undefined), 0)

NextNone == LoadReplay \/ Build \/ ForecastNone

SpecNone == InitLook /\ [][NextNone]_vars

\* --------------------------------------------------- runs in power balance
\* main --load FILE with a save of a colony whose producers equal its critical
\* demand at night: the starter colony with an RTG (30 kWh constant) and three
\* Habitats (2 kWh each) for 80 colonists (0.3 kWh each).  The saves differ in
\* the battery level (empty, a level that leaves a non-critical budget just
\* under 8 kWh, the default) and in the battery parameters.
BalancedColony ==
  [addBuilding(addBuilding(addBuilding(initStarter(GameState(1)), RTG), Habitat), Habitat)
     EXCEPT !.population = 80]
BalancedLevels == {0, 8376000, 300 * KWH}
BalancedSaves ==
  {[BalancedColony EXCEPT
      !.res.powerStored = level,
      !.batteryCRate = b.cRate, !.batteryEtaIn = b.etaIn, !.batteryEtaOut = b.etaOut] :
     level \in BalancedLevels, b \in {DefaultBattery, InertBattery}}

InitBalanced ==
  \E rd1 \in Seeds, rd2 \in Seeds, save \in BalancedSaves :
    /\ game = loadFromFile(NewGame(rd1), saveToFile(save), rd1).g
    /\ twin = loadFromFile(NewGame(rd2), saveToFile(save), rd2).g
    /\ status = "startup"
    /\ last = Op("load", save.hour, Quiet(game))
    /\ pre = game
    /\ nsub = 0
    /\ origin = save.hour
    /\ disk = NoFile
    /\ nio = 0
    /\ engine = EngineIdle
    /\ sims = NoSims

NextBalanced == Build \/ Advance \/ Forecast

SpecBalanced == InitBalanced /\ [][NextBalanced]_vars

\* ------------------------------------------------- the determinism test
\* tests/determinism: two Simulation of one seed, ticked with the same Input.
\* The test ticks default Worlds; here the Worlds are first filled through
\* world(), both alike, with up to one Habitat and two Colonists.
MaxTicks == 3
SimSeeds == {12345, 7}
HabitatChoices ==
  [id : {1}, volume_l : {1000}, pressure_mPa : {20, 101325}, power_mW : {-5, 9000, 15000}]
ColonistChoices ==
  [id : {1}, oxygen_mg : {3, 12}, co2_mg : {0}, stress_mil : {0}, temp_milK : {293000}]
WorldChoices ==
  {[tick |-> 0, colonists |-> c, habitats |-> h] :
     c \in UNION {[1 .. n -> ColonistChoices] : n \in 0 .. 2},
     h \in UNION {[1 .. n -> HabitatChoices] : n \in 0 .. 1}}
Inputs == {0, 1}

InitSim ==
  \E seed \in SimSeeds, w \in WorldChoices :
    /\ game = NewGame(1)
    /\ twin = NewGame(1)
    /\ status = "sim"
    /\ last = Op("sim", seed, Quiet(game))
    /\ pre = game
    /\ nsub = 0
    /\ origin = 0
    /\ disk = NoFile
    /\ nio = 0
    /\ engine = EngineIdle
    /\ sims = [a |-> [Simulation(seed) EXCEPT !.world = w],
               b |-> [Simulation(seed) EXCEPT !.world = w],
               was |-> w, input |-> 0]

\* a.tick(in); b.tick(in);
SimTick ==
  \E in \in Inputs :
    /\ status = "sim"
    /\ sims.a.world.tick < MaxTicks
    /\ sims' = [a |-> tick(sims.a, in), b |-> tick(sims.b, in),
                was |-> sims.a.world, input |-> in]
    /\ UNCHANGED <<game, twin, status, last, pre, nsub, origin, disk, nio, engine>>

NextSim == SimTick

SpecSim == InitSim /\ [][NextSim]_vars

\* ------------------------------------------------- the power system step
\* systems/power_system: State, Config, Inputs and Result of mars::power::step.
\* Energy in 1/128 Wh, efficiencies and cRate per cent, nonCriticalEff per
\* mille; every product, quotient, sum and difference is a double, rounded to
\* MantissaBits significant bits.
WH == 128
KWHs == 1000 * WH
clamp01(x) == Max(0, Min(PERMILLE, x))
saturate(x, lo, hi) == Max(lo, Min(hi, x))
\* the double nearest to x * num / den, ties to even
fscale(x, num, den) ==
  LET u == Ulp((x * num) \div den)
      k == (x * num) \div (den * u)
      r == (x * num) % (den * u)
  IN IF 2 * r < den * u THEN k * u
     ELSE IF 2 * r > den * u THEN (k + 1) * u
     ELSE (IF k % 2 = 0 THEN k ELSE k + 1) * u

\* step: [s, out], the State returned and the Result filled
power_step(s, inp, cfg) ==
  LET \* W -> Wh for the tick
      prodWh == fl(inp.producersW * inp.dtHours)
      critWh == fl(inp.criticalDemandW * inp.dtHours)
      nonCritWh == fl(inp.nonCriticalDemandW * inp.dtHours)
      \* C-rate limits for this step
      maxInWh == fl(fscale(s.capacityWh, cfg.cRate, PERCENT) * inp.dtHours)
      maxOutWh == maxInWh
      \* critical first: producers, then the battery
      needWh == fl(critWh - prodWh)
      drawWh == IF prodWh >= critWh THEN 0
                ELSE Min(fscale(needWh, PERCENT, cfg.etaOut), Min(maxOutWh, s.storedWh))
      afterDraw == fl(prodWh + fscale(drawWh, cfg.etaOut, PERCENT))
      unmetCriticalWh == IF afterDraw >= critWh THEN 0 ELSE fl(critWh - afterDraw)
      availableWh == IF afterDraw >= critWh THEN fl(afterDraw - critWh) ELSE 0
      \* non-critical: whatever remains
      serveNonCritWh == Min(availableWh, nonCritWh)
      nonCritEff == IF nonCritWh > 0
                    THEN clamp01(MulDiv(serveNonCritWh, PERMILLE, nonCritWh))
                    ELSE PERMILLE
      \* the spare charges the battery: spareWh > 1e-12
      spareWh == fl(availableWh - serveNonCritWh)
      roomWh == Max(0, fl(s.capacityWh - s.storedWh))
      storeWh == Min(fscale(spareWh, cfg.etaIn, PERCENT),
                     Min(roomWh, fscale(maxInWh, cfg.etaIn, PERCENT)))
      battInWh == IF spareWh > 0
                  THEN Min(storeWh, fscale(spareWh, cfg.etaIn, PERCENT))
                  ELSE 0
  IN [s |-> [s EXCEPT !.storedWh =
                        saturate(fl(fl(s.storedWh + battInWh) - drawWh), 0, s.capacityWh)],
      out |-> [nonCriticalEff |-> clamp01(nonCritEff), battInWh |-> battInWh,
               battOutWh |-> drawWh, unmetCriticalWh |-> unmetCriticalWh]]

\* the calls explored: packs of 0, 40 and 160 kWh at levels within the capacity,
\* production, critical and non-critical demand in whole kW, a step of one hour
\* or two, efficiencies in (0,1], cRate >= 0
PowerStates ==
  {st \in [storedWh : {0, 20 * KWHs, 40 * KWHs, 80 * KWHs},
           capacityWh : {0, 40 * KWHs, 160 * KWHs}] : st.storedWh <= st.capacityWh}
PowerInputs ==
  [producersW : {0, 5 * KWHs, 30 * KWHs},
   criticalDemandW : {0, 15 * KWHs, 57 * KWHs, 59 * KWHs},
   nonCriticalDemandW : {0, 10 * KWHs}, dtHours : {1, 2}]
PowerConfigs == [etaIn : {92, 100}, etaOut : {85, 90, 100}, cRate : {0, 25, 50}]

InitPower ==
  \E s \in PowerStates, inp \in PowerInputs, cfg \in PowerConfigs :
    /\ game = NewGame(1)
    /\ twin = NewGame(1)
    /\ status = "startup"
    /\ last = Op("new", [s |-> s, inp |-> inp, cfg |-> cfg], Quiet(game))
    /\ pre = game
    /\ nsub = 0
    /\ origin = 0
    /\ disk = NoFile
    /\ nio = 0
    /\ engine = EngineIdle
    /\ sims = NoSims

\* the one call of step on the State, Inputs and Config drawn
PowerStep ==
  /\ last.op = "new"
  /\ last' = [Op("step", last.arg, Quiet(game))
              EXCEPT !.ret = power_step(last.arg.s, last.arg.inp, last.arg.cfg)]
  /\ UNCHANGED <<game, twin, status, pre, nsub, origin, disk, nio, engine, sims>>

NextPower == PowerStep

SpecPower == InitPower /\ [][NextPower]_vars

Next == LoadReplay \/ Build \/ Advance \/ Forecast

Spec == Init /\ [][Next]_vars


\* ================================================================== claims
\* the last operation was an advance whose last hour reached the dispatch
Dispatched == last.op = "advance" /\ "dispatch" \in SeqToSet(last.log)

\* C1: after forecastHours(N), N >= 1, returns, every field of the live colony
\* state (hour, population, housing, morale, resources, facilities, effects,
\* last power report, battery parameters, generator) is what it was before the call.
C1_ForecastLeavesState ==
  (last.op = "forecast" /\ last.arg >= 1 /\ ~last.raised) => game.s = pre.s

\* C1 witness: a forecast returned whose look-ahead applied a pending build and
\* drained the battery
C1_Witness ==
  /\ last.op = "forecast" /\ ~last.raised
  /\ Len(last.series) >= 1
  /\ last.series[1].batt # pre.s.res.powerStored
  /\ \E i \in 1 .. Len(pre.pendingCommands) :
       /\ pre.pendingCommands[i].hour = pre.s.hour
       /\ pre.pendingCommands[i].a = SolarArray
  /\ game.s = pre.s

\* C2: two Games given the same seed and the same operations are in the same
\* state after every operation and tick: hour, resources, facilities, effects,
\* morale, last power report and generator position.
C2_TwinsAgree == game.s = twin.s /\ game.pendingCommands = twin.pendingCommands

\* C2 witness: after two hours with an order placed, an event rolled and the
\* generator moved on, the two Games agree
C2_Witness ==
  /\ last.op = "advance"
  /\ game.s.hour >= 2
  /\ nsub >= 1
  /\ game.s.effects # <<>>
  /\ game.s.rng # RngSeeded(game.s.rngSeed)
  /\ game.s = twin.s

\* the colony as the dispatch of the last hour found it: the orders of the hour
\* applied, then the events of the hour
AtDispatch == maybeSpawnEvents(applyCommandsForHour(last.at, last.at.s.hour).g.s)

IsPrefix(p, q) == Len(p) <= Len(q) /\ p = SubSeq(q, 1, Len(p))

\* C3: in every live tick the steps run in the order commands, events,
\* dispatch, effects, invariants, hour + 1; the dispatch of hour h therefore sees
\* the facilities built by the orders of hour h and the storm spawned at hour h.
C3_TickOrderFixed ==
  (last.op = "advance") =>
    /\ IsPrefix(last.log, <<"commands", "events", "dispatch", "effects", "invariants", "hour">>)
    /\ ~last.raised =>
         /\ Len(last.log) = 6
         /\ game.s.hour = last.at.s.hour + 1
    /\ Dispatched =>
         /\ last.loc.buildings = AtDispatch.buildings
         /\ last.loc.stormMult = stormSolarMultiplier(AtDispatch)

\* C3 witness: a tick that built a Solar Array ordered for its hour and spawned
\* a storm, both seen by its dispatch
C3_Witness ==
  /\ Dispatched /\ ~last.raised
  /\ \E i \in 1 .. Len(last.orders) :
       last.orders[i].hour = last.at.s.hour /\ last.orders[i].ok
       /\ last.orders[i].a = SolarArray
  /\ last.at.s.buildings[Len(last.at.s.buildings)].type = Electrolyzer
  /\ last.loc.buildings[Len(last.loc.buildings)].type = SolarArray
  /\ last.at.s.effects = <<>>
  /\ last.loc.stormMult < PERMILLE

\* the queue on which the last operation called applyCommandsForHour
QueueAtCall ==
  IF last.op = "build"
  THEN submit(last.at, [hour |-> last.at.s.hour, a |-> last.arg]).pendingCommands
  ELSE last.at.pendingCommands

\* the commands of a set, in the order in which they were submitted
SubmissionOrder(S) ==
  CHOOSE f \in [1 .. Cardinality(S) -> S] :
    \A i \in DOMAIN f, j \in DOMAIN f : i < j => f[i].n < f[j].n

\* C4: applyCommandsForHour(h) applies every queued command scheduled for h, in
\* submission order, and no other; afterwards the queue holds no command for h,
\* whether the builds succeeded or failed, and the other commands stay as they were.
C4_DrainedInOrder ==
  (last.op \in {"build", "advance"}) =>
    LET h == last.at.s.hour
        due == SubmissionOrder({QueueAtCall[i] : i \in {k \in 1 .. Len(QueueAtCall) :
                                                        QueueAtCall[k].hour = h}})
        done == SelectSeq(last.orders, LAMBDA o : o.hour = h)
    IN /\ [i \in 1 .. Len(done) |-> <<done[i].n, done[i].a>>]
            = [i \in 1 .. Len(due) |-> <<due[i].n, due[i].a>>]
       /\ game.pendingCommands = SelectSeq(QueueAtCall, LAMBDA c : c.hour # h)

\* the same statement for the operations that no exception left
DrainedInOrderOnReturn == ~last.raised => C4_DrainedInOrder

\* C5: after every tick and after every build, 0 <= powerStored <= batteryCapacity.
C5_ChargeWithinCapacity ==
  (last.op \in {"build", "advance"}) =>
    /\ 0 <= game.s.res.powerStored
    /\ game.s.res.powerStored <= game.s.res.batteryCapacity

\* C5 witness: after a build, a tick that charged the battery to within 1e-6 kWh
\* of its capacity
C5_Witness ==
  /\ Dispatched
  /\ nsub >= 1
  /\ game.s.lastPower.battIn > 0
  /\ game.s.res.batteryCapacity - game.s.res.powerStored <= 1
  /\ game.s.res.powerStored >= 0

\* producers plus the full deliverable battery power, as the last dispatch found them
Pool ==
  last.loc.producers
  + Min(MulDiv(last.loc.cap, last.at.s.batteryCRate, PERCENT),
        MulDiv(last.loc.soc0, last.at.s.batteryEtaOut, PERCENT))

\* a non-critical facility ran in the last dispatch: one was selected, the
\* report shows non-critical power run, or one contributed its flows
NonCriticalRan ==
  \/ last.loc.chosen # <<>>
  \/ game.s.lastPower.nonCriticalEff # 0
  \/ \E i \in last.loc.flowing : ~getSpec(last.loc.buildings[i].type).isCriticalLoad

C7_BlackoutOnlyWhenPoolShort ==
  (Dispatched /\ game.s.lastPower.blackout) => Pool < last.loc.critical

\* C8: in every tick powerStored_after = clamp(powerStored_before + battIn * etaIn
\* - battOut / etaOut, 0, batteryCapacity), each efficiency applied once; with
\* etaIn = etaOut = 1 that is clamp(powerStored_before + battIn - battOut, 0, capacity).
C8_ChargeUpdatedOnce ==
  Dispatched =>
    LET before == last.at.s.res.powerStored
        lp == game.s.lastPower
        etaIn == game.s.batteryEtaIn
        etaOut == game.s.batteryEtaOut
        cap == game.s.res.batteryCapacity
    IN /\ game.s.res.powerStored
            = clampv(before + MulDiv(lp.battIn, etaIn, PERCENT)
                            - MulDiv(lp.battOut, PERCENT, etaOut), 0, cap)
       /\ (etaIn = PERCENT /\ etaOut = PERCENT) =>
            game.s.res.powerStored = clampv(before + lp.battIn - lp.battOut, 0, cap)

\* C8 witness: a tick that drew on a lossy battery and took more from the store
\* than it delivered
C8_Witness ==
  /\ Dispatched
  /\ game.s.batteryEtaOut < PERCENT
  /\ game.s.lastPower.battOut > 0
  /\ last.at.s.res.powerStored - game.s.res.powerStored > game.s.lastPower.battOut

\* C10: when an error leaves forecastHours during the look-ahead, the live
\* state, the live queue and forecastMode are back at their values of before
\* the call.
C10_ForecastRestoresOnError ==
  (last.op = "forecast" /\ last.raised) =>
    /\ game.s = pre.s
    /\ game.pendingCommands = pre.pendingCommands
    /\ game.forecastMode = pre.forecastMode

\* the candidates of the last call of the optimizer: the active, powered,
\* non-critical facilities with a positive draw and a positive utility
KnapCandidates ==
  {i \in 1 .. Len(game.s.buildings) :
     LET sp == getSpec(game.s.buildings[i].type) IN
       /\ game.s.buildings[i].active
       /\ sp.needsPower /\ ~sp.isCriticalLoad /\ sp.powerCons > 0
       /\ Discretize(sp.powerCons) > 0
       /\ Utility(sp, last.arg.wFood, last.arg.wO2, last.arg.wWater) > 0}
\* summed discretized weight and summed utility of a set of facilities
KnapWeight(S) ==
  SumSeq([i \in 1 .. Len(game.s.buildings) |->
            IF i \in S THEN Discretize(getSpec(game.s.buildings[i].type).powerCons) ELSE 0])
KnapValue(S) ==
  SumSeq([i \in 1 .. Len(game.s.buildings) |->
            IF i \in S
            THEN Utility(getSpec(game.s.buildings[i].type),
                         last.arg.wFood, last.arg.wO2, last.arg.wWater)
            ELSE 0])
KnapCapacity == Discretize(Max(0, last.arg.powerBudget))

\* C9: the subset chooseNonCriticalLoads returns has the greatest total utility
\* among all subsets of the candidates whose discretized weights sum to at most
\* the discretized capacity, and its own summed weight is within that capacity.
C9_KnapsackOptimal ==
  (last.op = "choose") =>
    LET chosen == SeqToSet(last.loc.chosen) IN
      /\ Len(last.loc.chosen) = Cardinality(chosen)
      /\ chosen \subseteq KnapCandidates
      /\ KnapWeight(chosen) <= KnapCapacity
      /\ \A S \in SUBSET KnapCandidates :
           KnapWeight(S) <= KnapCapacity => KnapValue(S) <= KnapValue(chosen)

\* C9 witness: a call whose budget could not hold every candidate, which left a
\* candidate out while a lighter, poorer selection was also within the capacity
C9_Witness ==
  /\ last.op = "choose"
  /\ Len(last.loc.chosen) >= 2
  /\ SeqToSet(last.loc.chosen) # KnapCandidates
  /\ KnapWeight(KnapCandidates) > KnapCapacity
  /\ \E S \in SUBSET KnapCandidates :
       /\ S # {} /\ KnapWeight(S) <= KnapCapacity
       /\ KnapValue(S) < KnapValue(SeqToSet(last.loc.chosen))

\* the numbers of entry of the commands of a queue scheduled in [from, from + n)
DueWithin(q, from, n) ==
  {q[i].n : i \in {k \in 1 .. Len(q) : from <= q[k].hour /\ q[k].hour < from + n}}

\* C11: a forecastHours(N) that returns has applied, inside the look-ahead,
\* every pending command scheduled in [hour, hour + N) and no other, and leaves
\* the live queue with the same commands, hours and order as before the call.
C11_ForecastKeepsQueue ==
  (last.op = "forecast" /\ ~last.raised) =>
    /\ SeqToSet(last.applied) = DueWithin(pre.pendingCommands, pre.s.hour, last.arg)
    /\ Len(last.applied) = Cardinality(SeqToSet(last.applied))
    /\ game.pendingCommands = pre.pendingCommands

\* C11 witness: a forecast that applied a pending Solar Array order in its
\* look-ahead and returned with the order still queued
C11_Witness ==
  /\ last.op = "forecast" /\ ~last.raised
  /\ last.applied # <<>>
  /\ \E i \in 1 .. Len(game.pendingCommands) :
       /\ game.pendingCommands[i].n = last.applied[1]
       /\ game.pendingCommands[i].a = SolarArray
  /\ game.pendingCommands = pre.pendingCommands

\* C12: forecastHours(N) called again on the state a forecastHours(N) left gives
\* the same time series: per look-ahead hour the same production, critical
\* demand, non-critical power run, battery level, blackout flag, battIn and battOut.
C12_ForecastRepeats ==
  (last.op = "forecast" /\ ~last.raised) =>
    LET again == forecastHours(game, last.arg) IN
      /\ ~again.raised
      /\ again.series = last.series
      /\ forecastHours(again.g, last.arg).series = last.series

\* C12 witness: a forecast over a discharging battery with a pending order in
\* its look-ahead, whose repetition gives the same series
C12_Witness ==
  /\ last.op = "forecast" /\ ~last.raised
  /\ Len(last.series) >= 1
  /\ last.series[1].battOut > 0
  /\ last.applied # <<>>
  /\ forecastHours(game, last.arg).series = last.series

\* the order is for a facility the colony it was attempted in cannot pay
Unaffordable(o) ==
  \/ o.before.res.metals < getSpec(o.a).metalsCost
  \/ o.before.res.credits < getSpec(o.a).creditsCost

\* C13: a build attempted for a facility whose metals cost exceeds the colony's
\* metals or whose credits cost exceeds its credits is reported as failed and
\* tryBuild leaves every field of the colony as it was; the command is no
\* longer in the queue when the operation returns.
C13_FailedBuildConsumed ==
  (last.op \in {"build", "advance"} /\ ~last.raised) =>
    \A i \in 1 .. Len(last.orders) :
      LET o == last.orders[i] IN
        /\ Unaffordable(o) <=> ~o.ok
        /\ ~o.ok => o.after = o.before
        /\ ~o.ok => \A k \in 1 .. Len(game.pendingCommands) :
                      game.pendingCommands[k].n # o.n

\* C13 witness: an RTG ordered from the menu by a colony that has the metals
\* but not the credits: refused, nothing paid, the order gone from the queue
C13_Witness ==
  /\ last.op = "build" /\ ~last.raised
  /\ \E i \in 1 .. Len(last.orders) :
       LET o == last.orders[i] IN
         /\ ~o.ok
         /\ o.before.res.metals >= getSpec(o.a).metalsCost
         /\ o.before.res.credits < getSpec(o.a).creditsCost
         /\ o.after = o.before
         /\ o.n = game.submitted
  /\ game.pendingCommands = <<>>

\* the last tick of the operation reached its invariant check
InvariantsChecked ==
  /\ last.op = "advance"
  /\ \E i \in 1 .. Len(last.log) : last.log[i] = "invariants"

\* C14: from the starter colony, for every seed and every sequence of build
\* orders, the invariant check after a live tick passes, so that advanceHours
\* with hard invariants enabled is never stopped by it: water, oxygen, food,
\* powerStored, batteryCapacity >= 0; powerStored <= batteryCapacity;
\* population >= 0; housingCapacity >= 0; morale in [0,1]; nonCriticalEff in
\* [0,1]; battIn >= 0; battOut >= 0; hour >= 0.
C14_HardInvariantsHold ==
  InvariantsChecked =>
    /\ ~last.raised
    /\ checkInvariants(game.s)
    /\ checkInvariants([game.s EXCEPT !.hour = @ - 1])
    /\ game.s.hour = last.at.s.hour + 1

\* C14 witness: a tick with hard invariants enabled, after an order was built
\* and while the battery discharges, has passed its check
C14_Witness ==
  /\ InvariantsChecked /\ ~last.raised
  /\ game.hardFailOnInvariant
  /\ game.s.lastPower.battOut > 0
  /\ Len(game.s.buildings) > Len(initStarter(GameState(1)).buildings)

\* C15: when the invariant check fails after a live tick, with hard invariants
\* enabled advanceHours raises and the run stops at that tick; with hard
\* invariants disabled the violation is logged and the remaining ticks of the
\* advance still run.
C15_InvariantFailureModes ==
  (last.op = "advance" /\ last.failed # <<>>) =>
    IF pre.hardFailOnInvariant
    THEN /\ last.raised
         /\ last.failed = <<pre.s.hour>>
         /\ game.s.hour = pre.s.hour
         /\ status = "failed"
    ELSE /\ ~last.raised
         /\ last.reported = last.failed
         /\ game.s.hour = pre.s.hour + last.arg

\* C16: loadFromFile, into another Game, of the file saveToFile wrote for the
\* state of this one yields a field-equal state (the last power report with
\* battIn, battOut and the C-rate flags included), and both games are in the
\* same state after every subsequent tick.
C16_SaveLoadRoundTrip ==
  (last.op = "loadOther" /\ last.ret /\ disk = saveToFile(game.s)) =>
    /\ twin.s = game.s
    /\ \A n \in 1 .. MaxAdvance : advanceHours(twin, n).g.s = advanceHours(game, n).g.s

\* C17: whenever loadFromFile of the single-file game or loadGame of the engine
\* returns false, the live state is what it was before the call.
C17_FailedLoadLeavesState ==
  /\ (last.op = "load" /\ ~last.ret) => game = pre
  /\ (last.op = "loadGame" /\ ~last.ret) => engine.s = engine.was

\* C17 witness: a colony that has advanced since it saved is handed that file
\* with a bad building tag in it: the load returns false after the lines
\* before the tag were read, and the colony is as it was
C17_Witness ==
  /\ last.op = "load" /\ ~last.ret
  /\ last.arg = "badBuilding"
  /\ disk.opens
  /\ disk.lines[1].v < game.s.hour
  /\ game = pre

\* the kinds of malformed save C18 names
Malformed == {"badTag", "version", "badRng", "cut", "noEnd"}

\* C18: a save with a bad header or an unsupported version, an rngstate line
\* that does not parse, or a file that ends before the line "end" makes
\* loadFromFile return false and install nothing.
C18_MalformedSaveRejected ==
  (last.op = "load" /\ disk.opens /\ last.arg \in Malformed) =>
    /\ ~last.ret
    /\ game = pre

\* an exception left applyCommandsForHour during the last operation
ApplyingRaised ==
  /\ last.raised
  /\ \/ last.op \in {"build", "forecast"}
     \/ /\ last.op = "advance"
        /\ last.log # <<>>
        /\ last.log[Len(last.log)] = "commands"

\* C19: a replay file with a command line whose facility kind is outside the
\* catalog 0..6 makes loadReplayFile fail and enqueue nothing; every command
\* in the pending queue names a facility of the catalog; applying a queued
\* command, live or inside a forecast, never raises.
C19_ReplayValidated ==
  /\ (last.op = "replay" /\ \E i \in 1 .. Len(last.arg) : last.arg[i].a \notin BuildingTypes)
       => (~last.ret /\ game.pendingCommands = pre.pendingCommands)
  /\ \A i \in 1 .. Len(game.pendingCommands) : game.pendingCommands[i].a \in BuildingTypes
  /\ ~ApplyingRaised

\* C20: a fresh game at hour 0 with seed S that records while builds are issued
\* from its menu between advanceHours calls, and a second fresh game with seed
\* S that loads the recorded file and advances the same number of hours
\* without builds of its own, are in the same state after the last tick.
C20_RecordReplayAgree ==
  last.op = "rerun" =>
    /\ ~last.raised
    /\ twin.s = game.s

\* C20 witness: the replay of a recording with a build issued after the first
\* tick that added a facility, and a later tick, has arrived at the state of
\* the recorded game
C20_Witness ==
  /\ last.op = "rerun"
  /\ twin.s = game.s
  /\ \E i \in 1 .. Len(game.recordFile.cmds) :
       /\ game.recordFile.cmds[i].hour >= 1
       /\ game.recordFile.cmds[i].hour < game.s.hour
  /\ Len(game.s.buildings) > Len(initStarter(GameState(1)).buildings)

\* the commands in the queue when the hours of the last operation were applied:
\* those queued before it, and the one a build from the menu submitted
QueuedBefore ==
  IF last.op = "build"
  THEN submit(pre, [hour |-> pre.s.hour, a |-> last.arg]).pendingCommands
  ELSE pre.pendingCommands

\* the hours whose commands the last operation applied
HoursApplied ==
  IF last.op = "build" THEN {pre.s.hour} ELSE pre.s.hour .. game.s.hour - 1

\* the places in the order lines of the last operation that report command n
ReportsOf(n) == {i \in 1 .. Len(last.orders) : last.orders[i].n = n}

\* C21: a command that entered the pending queue, from the menu or from a
\* replay file, stays in the queue until the current hour is its scheduled
\* hour, is applied exactly once at that hour and is then gone; after any
\* sequence of advances the queue holds no command scheduled earlier than the
\* current hour.
C21_AppliedOnceAtItsHour ==
  /\ \A i \in 1 .. Len(game.pendingCommands) : game.pendingCommands[i].hour >= game.s.hour
  /\ (last.op \in {"build", "advance"} /\ ~last.raised) =>
       \A i \in 1 .. Len(QueuedBefore) :
         LET c == QueuedBefore[i]
             left == \E k \in 1 .. Len(game.pendingCommands) : game.pendingCommands[k].n = c.n
         IN IF c.hour \in HoursApplied
            THEN /\ Cardinality(ReportsOf(c.n)) = 1
                 /\ \A k \in ReportsOf(c.n) : last.orders[k].hour = c.hour
                 /\ ~left
            ELSE ReportsOf(c.n) = {} /\ left

\* C22: a dust storm is spawned only when no dust storm is active: in every
\* state reachable from the starter colony the effect list holds at most one
\* dust storm (the only kind of effect there is).
C22_OneStormAtMost == Len(game.s.effects) <= 1

\* ------------------------------------------------------------------- C23
\* the effects maybeSpawnEvents added in the hour of a note
SpawnedIn(note) ==
  SubSeq(note.to.effects, Len(note.from.effects) + 1, Len(note.to.effects))
\* an effect list k hours on: every duration k shorter, the run-out ones gone
Aged(effects, k) ==
  SelectSeq([i \in 1 .. Len(effects) |-> [effects[i] EXCEPT !.hoursRemaining = @ - k]],
            LAMBDA e : e.hoursRemaining > 0)
\* the effects spawned in hours i .. j of a call, as old as they are in hour j
RECURSIVE SpawnedSince(_, _, _)
SpawnedSince(trace, i, j) ==
  IF i > j THEN <<>>
  ELSE Aged(SpawnedIn(trace[i]), j - i) \o SpawnedSince(trace, i + 1, j)
\* the effects due in hour j of a call: those it began with and those spawned
\* in it, each in force for as many hours as its duration
EffectsDue(trace, j) == Aged(trace[1].from.effects, j - 1) \o SpawnedSince(trace, 1, j)

\* C23: in every hour of advanceHours the effects in force are exactly the
\* effects whose duration has not run out: an effect spawned with duration d in
\* hour h is in the list, and in the solar factor, of the hours h .. h+d-1 and
\* of no later hour; tickEffects shortens every duration by one and removes the
\* run-out effects in the same hour, so every effect it leaves has
\* hoursRemaining > 0.
C23_EffectsExpireOnTime ==
  (last.op = "advance" /\ ~last.raised) =>
    \A j \in 1 .. Len(last.trace) :
      LET note == last.trace[j]
          due == EffectsDue(last.trace, j)
      IN /\ note.ran
         /\ note.to.effects = due
         /\ note.mult = stormProduct(due)
         /\ note.kept = Aged(due, 1)
         /\ \A i \in 1 .. Len(note.kept) : note.kept[i].hoursRemaining > 0
\* a call in which a storm is spawned and which runs past the storm's last hour
C23_Witness ==
  /\ last.op = "advance" /\ ~last.raised
  /\ \E i \in 1 .. Len(last.trace) :
       /\ SpawnedIn(last.trace[i]) # <<>>
       /\ i + SpawnedIn(last.trace[i])[1].hoursRemaining <= Len(last.trace)
       /\ last.trace[i + SpawnedIn(last.trace[i])[1].hoursRemaining - 1].mult < PERMILLE

\* ------------------------------------------------------------------- C25
\* C25: no hour of forecastHours rolls an event, whatever its hour of the sol:
\* the generator is left as it was, no effect is added, no facility leaves the
\* list, metals and credits never grow, and the facility list changes only in
\* an hour in which orders were applied, by facilities added at its end.
C25_ForecastSpawnsNothing ==
  (last.op = "forecast" /\ ~last.raised) =>
    \A j \in 1 .. Len(last.trace) :
      LET note == last.trace[j] IN
      /\ note.done.rng = note.start.rng
      /\ note.done.rngSeed = note.start.rngSeed
      /\ Len(note.done.effects) <= Len(note.start.effects)
      /\ note.done.effects = Aged(note.start.effects, 1)
      /\ note.done.buildings = note.from.buildings
      /\ IsPrefix(note.start.buildings, note.from.buildings)
      /\ (note.built = 0 => note.from.buildings = note.start.buildings)
      /\ note.done.res.metals <= note.start.res.metals
      /\ note.done.res.credits <= note.start.res.credits
\* a look-ahead over an hour 0 of a sol in which the live hour would have
\* rolled a storm in, with an order applied inside the look-ahead
C25_Witness ==
  /\ last.op = "forecast" /\ ~last.raised
  /\ \E j \in 1 .. Len(last.trace) :
       /\ last.trace[j].hour % SOL_HOURS = 0
       /\ Len(maybeSpawnEvents(last.trace[j].from).effects)
            > Len(last.trace[j].from.effects)
  /\ \E j \in 1 .. Len(last.trace) : last.trace[j].built > 0

\* ------------------------------------------------------------------- C24
\* the draws of one cycle boundary, read off the generator in the order the
\* claim gives: storm roll (then duration, then multiplier when it fires),
\* meteoroid roll (then target when it fires on a colony with a facility that
\* is not a Battery Bank), supply-drop roll
BoundaryDraws(s) ==
  LET stormRoll == RngNext(s.rng)
      storm == RollBelow(stormRoll, 18)
      durDraw == RngNext(stormRoll)
      multDraw == RngNext(durDraw)
      meteorRoll == RngNext(IF storm THEN multDraw ELSE stormRoll)
      candidates == candidatesFrom(s.buildings, 1)
      meteor == RollBelow(meteorRoll, 6) /\ candidates # <<>>
      targetDraw == RngNext(meteorRoll)
      dropRoll == RngNext(IF meteor THEN targetDraw ELSE meteorRoll)
  IN [storm |-> storm,
      effect |-> [hoursRemaining |-> UniformInt(durDraw, 36, 96),
                  solarMultiplier |-> UniformPermille(multDraw, 200, 600)],
      meteor |-> meteor,
      target |-> IF meteor
                 THEN candidates[1 + UniformInt(targetDraw, 0, Len(candidates) - 1)]
                 ELSE 0,
      drop |-> RollBelow(dropRoll, 12),
      rng |-> dropRoll]

\* C24: an hour of advanceHours that is not a multiple of 24 draws nothing from
\* the generator and spawns nothing; an hour that is draws the storm roll, the
\* meteoroid roll and the supply-drop roll in this order, all three whatever
\* the earlier outcomes, a storm drawing its duration and its multiplier, and a
\* meteoroid its target, before the next roll.
C24_EventRollOrder ==
  (last.op = "advance" /\ ~last.raised) =>
    \A j \in 1 .. Len(last.trace) :
      LET note == last.trace[j]
          d == BoundaryDraws(note.from)
      IN /\ note.used = note.to.rng
         /\ IF note.hour % SOL_HOURS # 0
            THEN note.to = note.from
            ELSE /\ note.to.rng = d.rng
                 /\ SpawnedIn(note) = IF d.storm THEN <<d.effect>> ELSE <<>>
                 /\ note.to.buildings = IF d.meteor
                                        THEN RemoveAt(note.from.buildings, d.target)
                                        ELSE note.from.buildings
                 /\ note.to.res.credits = note.from.res.credits
                                           + (IF d.drop THEN 400 ELSE 0)
\* a call with an hour 0 in which a storm, a meteoroid and a supply drop all
\* fire, with an hour 0 in which none fires, and with hours between them
C24_Witness ==
  /\ last.op = "advance" /\ ~last.raised
  /\ \E j \in 1 .. Len(last.trace) :
       /\ last.trace[j].hour % SOL_HOURS = 0
       /\ BoundaryDraws(last.trace[j].from).storm
       /\ BoundaryDraws(last.trace[j].from).meteor
       /\ BoundaryDraws(last.trace[j].from).drop
       /\ Len(last.trace[j].to.buildings) < Len(last.trace[j].from.buildings)
  /\ \E j \in 1 .. Len(last.trace) :
       /\ last.trace[j].hour % SOL_HOURS = 0
       /\ ~BoundaryDraws(last.trace[j].from).meteor
       /\ ~BoundaryDraws(last.trace[j].from).drop
  /\ \E j \in 1 .. Len(last.trace) : last.trace[j].hour % SOL_HOURS # 0

\* ------------------------------------------------------------------- C26
\* the last hour of the call ran simulateHour with producers equal to the
\* critical demand
Balanced ==
  /\ last.op = "advance" /\ ~last.raised
  /\ Dispatched
  /\ last.loc.producers = last.loc.critical

AtSimulate == last.trace[Len(last.trace)].to
InertHour ==
  /\ last.op = "advance" /\ ~last.raised
  /\ Dispatched
  /\ AtSimulate.batteryCRate = 0

\* C27: with batteryCRate 0 an hour moves nothing through the battery: battIn
\* and battOut are 0, powerStored is as simulateHour found it, and the
\* non-critical budget is the surplus of the producers over the critical
\* demand alone.
C27_InertBattery ==
  InertHour =>
    /\ game.s.lastPower.battIn = 0
    /\ game.s.lastPower.battOut = 0
    /\ game.s.res.powerStored = AtSimulate.res.powerStored
    /\ last.loc.deliverableMax = 0
    /\ last.loc.nonCritBudget = Max(0, last.loc.producers - last.loc.critical)
\* an inert battery with charge in an hour of deficit
C27_Witness ==
  /\ InertHour
  /\ last.loc.producers < last.loc.critical
  /\ AtSimulate.res.powerStored > 0

\* ------------------------------------------------------------------- C28
Ticked == status = "sim" /\ sims.a.world.tick > 0

C29_ChosenWithinBudget ==
  (last.op = "advance" /\ ~last.raised /\ Dispatched) =>
    last.loc.noncritUsed <= last.loc.nonCritBudget

\* ------------------------------------------------------------------- C30
\* the limits of the battery simulateHour found in the last hour of the call
DischargeLimit ==
  Min(MulDiv(AtSimulate.res.batteryCapacity, AtSimulate.batteryCRate, PERCENT),
      MulDiv(AtSimulate.res.powerStored, AtSimulate.batteryEtaOut, PERCENT))
ChargeLimit ==
  Min(MulDiv(AtSimulate.res.batteryCapacity, AtSimulate.batteryCRate, PERCENT),
      DivEta(AtSimulate.res.batteryCapacity - AtSimulate.res.powerStored,
             AtSimulate.batteryEtaIn))

\* C30: in every hour the battery delivers at most min(capacity * cRate,
\* powerStored * etaOut) and takes in at most min(capacity * cRate,
\* (capacity - powerStored) / etaIn), powerStored being the level the hour
\* began with, and it never both delivers and takes in: what the budgeting
\* pass promised of the battery and what the dispatch pass draws are one and
\* the same energy.
C30_BatteryWithinLimits ==
  (last.op = "advance" /\ ~last.raised /\ Dispatched) =>
    /\ game.s.lastPower.battOut <= DischargeLimit
    /\ game.s.lastPower.battIn <= ChargeLimit
    /\ ~(game.s.lastPower.battIn > 0 /\ game.s.lastPower.battOut > 0)
    /\ game.s.lastPower.battOut <= last.loc.deliverableMax
\* an hour in which the battery covers the critical deficit and non-critical
\* facilities as well, and delivers all it can
C30_Witness ==
  /\ last.op = "advance" /\ ~last.raised /\ Dispatched
  /\ last.loc.producers < last.loc.critical
  /\ last.loc.noncritUsed > 0
  /\ game.s.lastPower.battOut > 0
  /\ game.s.lastPower.battOut = DischargeLimit

\* ------------------------------------------------------------------- C31
\* the C-rate ceiling and the net power after the selected loads of the last
\* hour of the call
CRateCeiling ==
  MulDiv(AtSimulate.res.batteryCapacity, AtSimulate.batteryCRate, PERCENT)
NetAfterLoads == last.loc.producers - last.loc.critical - last.loc.noncritUsed

\* C31: after an hour chargeCRateLimited is set only if the charge was capped
\* below the surplus by the ceiling capacity * cRate, and
\* dischargeCRateLimited only if the discharge was capped below the deficit by
\* that ceiling; when the free room or the stored energy was what bound, the
\* flag is not set.
C31_FlagsNameTheCRate ==
  (last.op = "advance" /\ ~last.raised /\ Dispatched) =>
    /\ game.s.lastPower.chargeCRateLimited =>
         /\ game.s.lastPower.battIn = CRateCeiling
         /\ game.s.lastPower.battIn < NetAfterLoads
    /\ game.s.lastPower.dischargeCRateLimited =>
         /\ game.s.lastPower.battOut = CRateCeiling
         /\ game.s.lastPower.battOut < -NetAfterLoads

\* ------------------------------------------------------------------- C32
\* what the events of one hour did to the facilities, the housing and the
\* morale: nothing, or one facility that is no Battery Bank gone with its
\* housing and 0.08 of morale
StrikeOrNothing(from, to) ==
  \/ /\ to.buildings = from.buildings
     /\ to.housingCapacity = from.housingCapacity
     /\ to.morale = from.morale
  \/ \E idx \in 1 .. Len(from.buildings) :
       /\ from.buildings[idx].type # BatteryBank
       /\ to.buildings = RemoveAt(from.buildings, idx)
       /\ to.housingCapacity
            = Max(from.housingCapacity - getSpec(from.buildings[idx].type).housing, 0)
       /\ to.morale = Max(from.morale - 80, 0)
\* a colony with its facilities other than Battery Banks taken away
BanksOnly(s) ==
  [s EXCEPT !.buildings = SelectSeq(@, LAMBDA b : b.type = BatteryBank)]

\* C32: the events of an hour remove at most one facility and never a Battery
\* Bank, with the housing of the facility (not below 0) and 0.08 of morale
\* (not below 0); on a colony of Battery Banks alone they remove nothing and
\* leave housing and morale; batteryCapacity is never lower after a tick or a
\* build than before.
C32_MeteoroidSparesBatteries ==
  /\ (last.op \in {"advance", "build"} /\ ~last.raised) =>
       game.s.res.batteryCapacity >= pre.s.res.batteryCapacity
  /\ (last.op = "advance" /\ ~last.raised) =>
       \A j \in 1 .. Len(last.trace) :
         LET note == last.trace[j]
             banks == BanksOnly(note.from)
         IN /\ StrikeOrNothing(note.from, note.to)
            /\ note.to.res.batteryCapacity = note.from.res.batteryCapacity
            /\ maybeSpawnEvents(banks).buildings = banks.buildings
            /\ maybeSpawnEvents(banks).housingCapacity = banks.housingCapacity
            /\ maybeSpawnEvents(banks).morale = banks.morale
\* a call in which a meteoroid destroys a facility, on a colony to which a
\* Battery Bank was added; the same roll succeeds on the banks alone
C32_Witness ==
  /\ last.op = "advance" /\ ~last.raised
  /\ \E j \in 1 .. Len(last.trace) :
       /\ Len(last.trace[j].to.buildings) < Len(last.trace[j].from.buildings)
       /\ last.trace[j].to.morale = last.trace[j].from.morale - 80
       /\ Len(BanksOnly(last.trace[j].from).buildings) >= 2
       /\ BoundaryDraws(last.trace[j].from).meteor

\* the facilities the optimizer may switch on: installed, active, needing power,
\* not a critical load, drawing power
Switchable ==
  {i \in 1 .. Len(game.s.buildings) :
     LET sp == getSpec(game.s.buildings[i].type) IN
       /\ game.s.buildings[i].active
       /\ sp.needsPower /\ ~sp.isCriticalLoad /\ sp.powerCons > 0}

\* C33: chooseNonCriticalLoads returns the empty selection when the discretized
\* budget is zero or negative or when no facility is eligible; every index it
\* returns is that of an installed, active facility that needs power, is not a
\* critical load and draws power; no index is returned twice.
C33_SelectionIsOfSwitchable ==
  (last.op = "choose") =>
    /\ ~last.raised
    /\ (KnapCapacity <= 0 \/ KnapCandidates = {}) => last.loc.chosen = <<>>
    /\ \A k \in 1 .. Len(last.loc.chosen) : last.loc.chosen[k] \in Switchable
    /\ \A j, k \in 1 .. Len(last.loc.chosen) :
         last.loc.chosen[j] = last.loc.chosen[k] => j = k

\* C33 witness: a call that returned a selection on a colony with a facility
\* switched off that the budget left room for
C33_Witness ==
  /\ last.op = "choose"
  /\ last.loc.chosen # <<>>
  /\ \E i \in 1 .. Len(game.s.buildings) :
       /\ ~game.s.buildings[i].active
       /\ i \notin Switchable
       /\ KnapWeight(SeqToSet(last.loc.chosen) \cup {i}) <= KnapCapacity

\* the latest facility that is in one of two selections and not in the other
LatestDifference(S, T) ==
  CHOOSE i \in (S \ T) \cup (T \ S) : \A j \in (S \ T) \cup (T \ S) : j <= i

\* C34: ties are broken by facility order: a candidate is taken only when taking
\* it gives strictly more utility than the best selection of the candidates
\* before it, so that among the selections within the capacity that are as good
\* as the one returned, the one returned leaves out the later facility.
C34_TiesByFacilityOrder ==
  (last.op = "choose") =>
    LET chosen == SeqToSet(last.loc.chosen) IN
      \A S \in SUBSET KnapCandidates :
        (/\ S # chosen
         /\ KnapWeight(S) <= KnapCapacity
         /\ KnapValue(S) = KnapValue(chosen))
        => LatestDifference(S, chosen) \in S

\* the facilities whose flows count in the hour just simulated: the active ones
\* that need no power and, unless the hour was a blackout, the active critical
\* loads and the non-critical loads the optimizer selected
Contributors ==
  {i \in 1 .. Len(AtSimulate.buildings) :
     LET sp == getSpec(AtSimulate.buildings[i].type) IN
       /\ AtSimulate.buildings[i].active
       /\ \/ ~sp.needsPower
          \/ /\ ~last.loc.blackout
             /\ sp.isCriticalLoad \/ i \in SeqToSet(last.loc.chosen)}
\* a stock after the hour: what it was, the contributors' flows, the colonists' use
StockAfter(stock, flow, perColonist) ==
  Max(0, AtSimulate.res[stock]
         + SumSeq([i \in 1 .. Len(AtSimulate.buildings) |->
                     IF i \in Contributors
                     THEN getSpec(AtSimulate.buildings[i].type)[flow] ELSE 0])
         - AtSimulate.population * perColonist)

\* C35: flows are gated by power.  In a blackout hour no facility that needs
\* power adds to water, oxygen or food and morale takes the blackout penalty; in
\* any other hour a non-critical powered facility adds its flows exactly when the
\* optimizer selected it.  A blackout does not abort the call, and water, oxygen
\* and food are not negative after the hour.
C35_FlowsGatedByPower ==
  (last.op = "advance" /\ Dispatched) =>
    /\ last.loc.blackout => ~last.raised
    /\ ~last.raised =>
         /\ game.s.res.water = StockAfter("water", "waterFlow", WAT_PER_COLONIST)
         /\ game.s.res.oxygen = StockAfter("oxygen", "oxygenFlow", O2_PER_COLONIST)
         /\ game.s.res.food = StockAfter("food", "foodFlow", FOOD_PER_COLONIST)
         /\ last.loc.flowing =
              {i \in Contributors : getSpec(AtSimulate.buildings[i].type).needsPower
                                     /\ HasFlows(getSpec(AtSimulate.buildings[i].type),
                                                 AtSimulate.buildings[i])}
         /\ game.s.res.water >= 0 /\ game.s.res.oxygen >= 0 /\ game.s.res.food >= 0
         /\ last.loc.blackout =>
              /\ last.loc.flowing = {}
              /\ game.s.morale <= Max(0, AtSimulate.morale - 40)
              /\ game.s.hour = AtSimulate.hour + 1
              /\ checkInvariants(game.s)

\* C35 witness: a blackout hour of a colony with morale to lose and powered
\* facilities that would have added to the stocks, which the call survived
C35_Witness ==
  /\ last.op = "advance" /\ Dispatched /\ ~last.raised
  /\ last.loc.blackout
  /\ AtSimulate.morale >= 40
  /\ game.s.morale < AtSimulate.morale
  /\ game.s.res.water < AtSimulate.res.water
  /\ \E i \in 1 .. Len(AtSimulate.buildings) :
       /\ AtSimulate.buildings[i].active
       /\ getSpec(AtSimulate.buildings[i].type).needsPower
       /\ getSpec(AtSimulate.buildings[i].type).waterFlow > 0

\* the colony a successful build of facility t leaves, from the colony before it
Built(before, t) ==
  [before EXCEPT !.res.metals = @ - getSpec(t).metalsCost,
                 !.res.credits = @ - getSpec(t).creditsCost,
                 !.buildings = Append(@, [type |-> t, active |-> TRUE]),
                 !.housingCapacity = @ + getSpec(t).housing,
                 !.res.batteryCapacity = @ + getSpec(t).batteryCapacityDelta]

\* C36: a successful tryBuild lowers metals and credits by the costs of the
\* facility, appends one active facility of the kind asked for at the end of the
\* list, raises housingCapacity and batteryCapacity by the facility's deltas and
\* leaves every other field (hour, population, morale, water, oxygen, food,
\* effects, generator) as it was; metals and credits are never negative.
C36_BuildPaysAndAppends ==
  /\ game.s.res.metals >= 0
  /\ game.s.res.credits >= 0
  /\ \A i \in 1 .. Len(last.orders) :
       LET o == last.orders[i] IN
         o.ok => /\ o.after = Built(o.before, o.a)
                 /\ o.after.res.metals >= 0
                 /\ o.after.res.credits >= 0

\* C36 witness: a Battery Bank built from the menu by a colony that had built a
\* Habitat before: housing raised by the one, battery capacity by the other
C36_Witness ==
  /\ last.op = "build" /\ ~last.raised
  /\ \E i \in 1 .. Len(last.orders) :
       LET o == last.orders[i] IN
         /\ o.ok /\ o.a = BatteryBank
         /\ o.after.res.batteryCapacity > o.before.res.batteryCapacity
         /\ o.after.res.metals < o.before.res.metals
         /\ Len(o.before.buildings) > Len(initStarter(GameState(1)).buildings)
         /\ o.before.buildings[Len(o.before.buildings)].type = Habitat
         /\ o.before.housingCapacity > initStarter(GameState(1)).housingCapacity

\* the energy the battery can deliver in the step of the last call, times
\* PERCENT: the lesser of the C-rate limit and the stored energy, after the
\* discharge efficiency
DeliverableByPercent ==
  Min(MulDiv(last.arg.s.capacityWh, last.arg.cfg.cRate, PERCENT) * last.arg.inp.dtHours,
      last.arg.s.storedWh) * last.arg.cfg.etaOut
CriticalShortfall ==
  (last.arg.inp.criticalDemandW - last.arg.inp.producersW) * last.arg.inp.dtHours

\* C37: for a level within the capacity, demands and production >= 0,
\* efficiencies in (0,1] and cRate >= 0, step returns a level within
\* [0, capacityWh], nonCriticalEff in [0,1], battInWh >= 0, battOutWh >= 0 and
\* never both positive, unmetCriticalWh > 0 only when production and what the
\* battery can deliver fall short of the critical demand, and discharges only
\* when production is short of the critical demand, serving none of the
\* non-critical demand then.
C37_StepWithinLimits ==
  (last.op = "step") =>
    LET out == last.ret.out IN
      /\ 0 <= last.ret.s.storedWh /\ last.ret.s.storedWh <= last.arg.s.capacityWh
      /\ 0 <= out.nonCriticalEff /\ out.nonCriticalEff <= PERMILLE
      /\ out.battInWh >= 0 /\ out.battOutWh >= 0
      /\ ~(out.battInWh > 0 /\ out.battOutWh > 0)
      /\ out.unmetCriticalWh > 0 => DeliverableByPercent < CriticalShortfall * PERCENT
      /\ out.battOutWh > 0 =>
           /\ CriticalShortfall > 0
           /\ last.arg.inp.nonCriticalDemandW > 0 => out.nonCriticalEff = 0

====
